---- MODULE Spec2Model ----
(***************************************************************************)
(* Model of the MCPower security proxy's operation pipeline                *)
(* (wrapper/middleware.py, SecurityMiddleware).                            *)
(*                                                                         *)
(* Every inspected MCP operation is one asyncio task running               *)
(* _handle_operation.  A task only gives up control at an `await`, so each *)
(* action below is the code between two suspension points of the task;     *)
(* cancellation can only be delivered while a task is suspended.           *)
(***************************************************************************)
EXTENDS Integers, Sequences, FiniteSets, TLC

\* Number of operations the proxy handles, possibly concurrently in flight.
MaxOps == 2

\* The longest need_fields list of a verdict.
MaxFields == 2

\* The tools/list requests of a run, the seconds between two readings of the
\* clock, and the readings of a run.
MaxLists == 2

TickSeconds == 30

MaxTicks == 4

Ops == 1..MaxOps

\* Python's None, and the marker of a key that is absent from a dict.
None == "None"
Absent == "<absent>"

----------------------------------------------------------------------------
(* Policy verdicts: the dict an inspect call of SecurityPolicyClient gives. *)

KnownDecisions ==
    {"allow", "block", "required_explicit_user_confirmation", "need_more_info"}

\* "other" stands for any decision string outside the four known values.
DecisionValues == KnownDecisions \cup {"other", Absent}

SeverityValues == {"low", "medium", "high", "critical", "unknown", Absent}

CallTypeValues == {None, "read"}

\* Every verdict shape the policy service can answer with.
AllVerdicts ==
    [decision : DecisionValues, severity : SeverityValues,
     call_type : CallTypeValues, matched_rules : {"policy.rule"}]

\* The verdicts used where several operations interleave: one that lets the
\* operation through, one that opens a dialog and one that raises at once
\* (the pipeline itself never reads a verdict; it sees enforcement return or
\* raise).
PipelineVerdicts ==
    {v \in AllVerdicts :
        /\ v.decision \in {"allow", "block", "need_more_info"}
        /\ v.severity = "high"
        /\ v.call_type = None}

\* No verdict received (yet).
NoVerdict ==
    [decision |-> None, severity |-> None, call_type |-> None,
     matched_rules |-> None]

\* dict.get(key, default)
DictGet(d, key, default) == IF d[key] = Absent THEN default ELSE d[key]

----------------------------------------------------------------------------
(* Configuration read from the environment (spec 6.5).                     *)

MinBlockSeverityValues == {"low", "medium", "high", "critical"}

\* Rank in the order low < medium < high < critical; a missing or unknown
\* severity ranks as high.
SeverityRank(s) ==
    CASE s = "low" -> 1
      [] s = "medium" -> 2
      [] s = "high" -> 3
      [] s = "critical" -> 4
      [] OTHER -> 3

----------------------------------------------------------------------------
VARIABLES
    pc,                   \* pc[o]: where task o is suspended, or how it ended
    event_id,             \* event_id[o]: the id of operation o (0: none yet)
    last_event_id,        \* the last id generate_event_id handed out
    audit_log,            \* audit_log[e]: the audit events emitted with id e
    trace,                \* trace[o]: the calls task o has made, in order
    decision,             \* decision[o]: the verdict of the current phase
    dialogs,              \* dialogs[o]: the dialogs shown for operation o
    confirmations,        \* confirmations[o]: record_user_confirmation calls
    pending,              \* pending[o]: outcome waiting behind the recording
    raised_error,         \* raised_error[o]: the error raised to the caller
    MIN_BLOCK_SEVERITY,   \* environment option
    ALLOW_BLOCK_OVERRIDE, \* environment option
    call,                 \* the last call of a function taken on its own
    now,                  \* time.time(), in seconds
    _last_tools_init_time, \* <<>> for None, else <<the time of the last init>>
    app_id,               \* "" until read_app_uid has given the app uid
    tools_list,           \* tools_list[t]: the tools/list request t
    init_tools_calls      \* the tasks that called client.init_tools, in order

\* The state of the operation pipeline.
pipeline == <<pc, event_id, last_event_id, audit_log, trace, decision, dialogs,
              confirmations, pending, raised_error,
              MIN_BLOCK_SEVERITY, ALLOW_BLOCK_OVERRIDE>>

\* The state of the tools/list handling.
listing == <<now, _last_tools_init_time, app_id, tools_list, init_tools_calls>>

vars == <<pipeline, call, listing>>

config == <<MIN_BLOCK_SEVERITY, ALLOW_BLOCK_OVERRIDE>>

EventIds == 1..MaxOps

\* The pipeline's audit events, in the order _handle_operation emits them.
AuditOrder ==
    <<"agent_request", "agent_request_forwarded",
      "mcp_response", "mcp_response_forwarded">>

\* Suspension points of a task: the only places where it can be cancelled.
AwaitPoints ==
    {"inspect_request", "record_request", "call_next",
     "inspect_response", "record_response"}

Finished == {"returned", "raised", "cancelled"}

----------------------------------------------------------------------------
(* The confirmation dialog capability (modules/ui/confirmation.py).  The   *)
(* user's action is an input: a button, or letting the dialog time out.    *)

DialogChoices == {"ALLOW", "ALLOW_ALWAYS", "BLOCK", "timeout"}

\* The user actions used where several operations interleave (a timeout
\* ends a dialog the way Block does).
PipelineChoices == {"ALLOW", "BLOCK"}

\* Two buttons, Block (default) and Allow Anyway; a timeout counts as Block.
\* Returns the response, or raises UserConfirmationError.
request_blocking_confirmation(choice) ==
    IF choice = "ALLOW"
    THEN [raised |-> FALSE, user_decision |-> "ALLOW"]
    ELSE [raised |-> TRUE, user_decision |-> "BLOCK"]

\* Allow / Block, plus Always Allow when the options offer it.
request_confirmation(choice, options) ==
    IF choice = "ALLOW" \/ (choice = "ALLOW_ALWAYS" /\ options.show_always_allow)
    THEN [raised |-> FALSE, user_decision |-> choice]
    ELSE [raised |-> TRUE, user_decision |-> "BLOCK"]

\* The buttons a dialog offers (and the timeout).
ChoicesOffered(dialog) ==
    IF dialog.kind = "blocking"
    THEN {"ALLOW", "BLOCK", "timeout"}
    ELSE {"ALLOW", "BLOCK", "timeout"}
         \cup (IF dialog.show_always_allow THEN {"ALLOW_ALWAYS"} ELSE {})

----------------------------------------------------------------------------
(* SecurityMiddleware: verdict synthesis and enforcement.                  *)

\* A fallback verdict that fails open.
_create_security_api_failure_decision_open ==
    [decision |-> "allow", severity |-> "high", call_type |-> None,
     matched_rules |-> "security_api.error"]

_create_security_api_failure_decision ==
    [decision |-> "block", severity |-> "high", call_type |-> None,
     matched_rules |-> "security_api.error"]

\* direction = "request" if is_request else "response"
Direction(is_request) == IF is_request THEN "request" ELSE "response"

\* A recording that always names the request.
UserConfirmation_of_request(is_request, user_decision, call_type) ==
    [direction |-> "request",
     user_decision |-> user_decision, call_type |-> call_type]

\* The UserConfirmation handed to _record_user_confirmation.
UserConfirmation(is_request, user_decision, call_type) ==
    [direction |-> Direction(is_request),
     user_decision |-> user_decision, call_type |-> call_type]

\* The calls _record_user_confirmation(event_id, is_request, ...) of an
\* enforcement, each with the event_id _enforce_decision was given.
RecordCalls(record, e) ==
    [i \in 1..Len(record) |->
        [event_id |-> e,
         direction |-> record[i].direction,
         user_decision |-> record[i].user_decision,
         call_type |-> record[i].call_type]]

\* What enforcement did: the dialog it opened (none or one, with what the
\* user did on it), the confirmation it recorded (none or one), and whether
\* it returned or raised.
Enforced(dialog, record, outcome, error) ==
    [dialog |-> dialog, record |-> record, outcome |-> outcome, error |-> error]

UserBlocked == "Security Violation. User blocked the operation"

NeedMoreInfo(is_request) ==
    IF is_request THEN "NEEDS MORE INFORMATION FOR REVIEWING CLIENT REQUEST"
    ELSE "NEEDS MORE INFORMATION FOR REVIEWING TOOL RESPONSE"

\* The dotted paths the policy service can name in need_fields: the seven
\* the wrapper translates, and one it does not know.
NeedFields ==
    {"context.agent.intent", "context.agent.plan",
     "context.agent.expectedOutputs", "context.agent.user_prompt",
     "context.agent.user_prompt_id", "context.agent.context_summary",
     "context.workspace.current_files", "context.agent.other"}

\* A mapping in which two paths were given the same wrapper name.
wrapper_field_mapping_duplicated(field) ==
    CASE field = "context.agent.intent" -> "__wrapper_modelIntent"
      [] field = "context.agent.plan" -> "__wrapper_modelPlan"
      [] field = "context.agent.expectedOutputs"
            -> "__wrapper_modelExpectedOutputs"
      [] field = "context.agent.user_prompt" -> "__wrapper_userPrompt"
      [] field = "context.agent.user_prompt_id" -> "__wrapper_userPrompt"
      [] field = "context.agent.context_summary" -> "__wrapper_contextSummary"
      [] field = "context.workspace.current_files" -> "__wrapper_currentFiles"
      [] OTHER -> field

\* wrapper_field_mapping.get(field, field)
wrapper_field_mapping(field) ==
    CASE field = "context.agent.intent" -> "__wrapper_modelIntent"
      [] field = "context.agent.plan" -> "__wrapper_modelPlan"
      [] field = "context.agent.expectedOutputs"
            -> "__wrapper_modelExpectedOutputs"
      [] field = "context.agent.user_prompt" -> "__wrapper_userPrompt"
      [] field = "context.agent.user_prompt_id" -> "__wrapper_userPromptId"
      [] field = "context.agent.context_summary" -> "__wrapper_contextSummary"
      [] field = "context.workspace.current_files" -> "__wrapper_currentFiles"
      [] OTHER -> field

\* The lines of a message, each the pieces of text it is made of, in order.
Lines(texts) == [i \in 1..Len(texts) |-> <<texts[i]>>]

\* The message of the need_more_info branch: error_parts before the join.
need_more_info_message(is_request, reasons, need_fields) ==
    LET stage_title == IF is_request THEN "CLIENT REQUEST" ELSE "TOOL RESPONSE"
        missing_wrapper_fields ==
            [i \in 1..Len(need_fields) |-> wrapper_field_mapping(need_fields[i])]
        head == << <<"SECURITY POLICY NEEDS MORE INFORMATION FOR REVIEWING ",
                     stage_title, ":">>,
                   reasons,
                   <<"">> >>
        fields == IF need_fields # <<>>
                  THEN IF missing_wrapper_fields # <<>>
                       THEN << <<"AFFECTED FIELDS:">> >>
                            \o Lines(missing_wrapper_fields)
                       ELSE << <<"MISSING INFORMATION:">> >>
                            \o Lines(need_fields)
                  ELSE <<>>
        actions ==
            << <<"\n", "MANDATORY ACTIONS:">>,
               <<"1. Add/Edit ALL affected fields according to the required information">>,
               <<"2. Retry the tool call">> >>
    IN  head \o fields \o actions

\* The block branch with a severity filter that also lets through a verdict
\* whose severity equals the threshold.
EnforceBlock_filter_at_threshold(verdict, is_request, choice) ==
    LET severity == DictGet(verdict, "severity", "unknown")
        dialog == [kind |-> "blocking", is_request |-> is_request,
                   severity |-> severity, show_always_allow |-> FALSE,
                   show_always_block |-> FALSE, choice |-> choice]
        response == request_blocking_confirmation(choice)
    IN  IF SeverityRank(severity) <= SeverityRank(MIN_BLOCK_SEVERITY)
        THEN Enforced(<<>>,
                      <<UserConfirmation(is_request, "ALLOW",
                                         verdict.call_type)>>,
                      "return", None)
        ELSE IF ~response.raised
        THEN Enforced(<<dialog>>,
                      <<UserConfirmation(is_request, response.user_decision,
                                         verdict.call_type)>>,
                      "return", None)
        ELSE Enforced(<<dialog>>,
                      <<UserConfirmation(is_request, "BLOCK",
                                         verdict.call_type)>>,
                      "raise", UserBlocked)

\* The block branch whose except clause records BLOCK and forgets to raise.
EnforceBlock_not_raising(verdict, is_request, choice) ==
    LET severity == DictGet(verdict, "severity", "unknown")
        dialog == [kind |-> "blocking", is_request |-> is_request,
                   severity |-> severity, show_always_allow |-> FALSE,
                   show_always_block |-> FALSE, choice |-> choice]
        response == request_blocking_confirmation(choice)
    IN  Enforced(<<dialog>>,
                 <<UserConfirmation(is_request, response.user_decision,
                                    verdict.call_type)>>,
                 "return", None)

\* The block branch opening its dialog a second time when the user lets the
\* first one time out.
EnforceBlock_asking_again(verdict, is_request, choice) ==
    LET severity == DictGet(verdict, "severity", "unknown")
        call_type == verdict.call_type
        dialog == [kind |-> "blocking", is_request |-> is_request,
                   severity |-> severity, show_always_allow |-> FALSE,
                   show_always_block |-> FALSE, choice |-> choice]
        response == request_blocking_confirmation(choice)
    IN  IF ~response.raised
        THEN Enforced(<<dialog>>,
                      <<UserConfirmation(is_request, response.user_decision,
                                         call_type)>>,
                      "return", None)
        ELSE Enforced(IF choice = "timeout" THEN <<dialog, dialog>>
                      ELSE <<dialog>>,
                      <<UserConfirmation(is_request, "BLOCK", call_type)>>,
                      "raise", UserBlocked)

\* decision_type == "block": the blocking dialog is always shown; Allow
\* Anyway is recorded and enforcement returns, anything else is recorded as
\* BLOCK and enforcement raises.  Neither MIN_BLOCK_SEVERITY nor
\* ALLOW_BLOCK_OVERRIDE is read.
EnforceBlock(verdict, is_request, choice) ==
    LET severity == DictGet(verdict, "severity", "unknown")
        call_type == verdict.call_type
        dialog == [kind |-> "blocking", is_request |-> is_request,
                   severity |-> severity, show_always_allow |-> FALSE,
                   show_always_block |-> FALSE, choice |-> choice]
        response == request_blocking_confirmation(choice)
    IN  IF ~response.raised
        THEN Enforced(<<dialog>>,
                      <<UserConfirmation(is_request, response.user_decision,
                                         call_type)>>,
                      "return", None)
        ELSE Enforced(<<dialog>>,
                      <<UserConfirmation(is_request, "BLOCK", call_type)>>,
                      "raise", UserBlocked)

\* The confirmation branch behind the severity filter of the block branch.
EnforceConfirmation_filtered(verdict, is_request, choice) ==
    LET severity == DictGet(verdict, "severity", "unknown")
        call_type == verdict.call_type
        options == [show_always_allow |-> (call_type # None),
                    show_always_block |-> FALSE]
        dialog == [kind |-> "confirmation", is_request |-> is_request,
                   severity |-> severity,
                   show_always_allow |-> options.show_always_allow,
                   show_always_block |-> options.show_always_block,
                   choice |-> choice]
        response == request_confirmation(choice, options)
    IN  IF SeverityRank(severity) < SeverityRank(MIN_BLOCK_SEVERITY)
        THEN Enforced(<<>>, <<UserConfirmation(is_request, "ALLOW", call_type)>>,
                      "return", None)
        ELSE IF ~response.raised
        THEN Enforced(<<dialog>>,
                      <<UserConfirmation(is_request, response.user_decision,
                                         call_type)>>,
                      "return", None)
        ELSE Enforced(<<dialog>>,
                      <<UserConfirmation(is_request, "BLOCK", call_type)>>,
                      "raise", UserBlocked)

\* The confirmation branch offering Always Allow whatever the call_type.
EnforceConfirmation_always_offering(verdict, is_request, choice) ==
    LET severity == DictGet(verdict, "severity", "unknown")
        call_type == verdict.call_type
        options == [show_always_allow |-> TRUE, show_always_block |-> FALSE]
        dialog == [kind |-> "confirmation", is_request |-> is_request,
                   severity |-> severity,
                   show_always_allow |-> options.show_always_allow,
                   show_always_block |-> options.show_always_block,
                   choice |-> choice]
        response == request_confirmation(choice, options)
    IN  IF ~response.raised
        THEN Enforced(<<dialog>>,
                      <<UserConfirmation(is_request, response.user_decision,
                                         call_type)>>,
                      "return", None)
        ELSE Enforced(<<dialog>>,
                      <<UserConfirmation(is_request, "BLOCK", call_type)>>,
                      "raise", UserBlocked)

\* decision_type == "required_explicit_user_confirmation".
EnforceConfirmation(verdict, is_request, choice) ==
    LET severity == DictGet(verdict, "severity", "unknown")
        call_type == verdict.call_type
        options == [show_always_allow |-> (call_type # None),
                    show_always_block |-> FALSE]
        dialog == [kind |-> "confirmation", is_request |-> is_request,
                   severity |-> severity,
                   show_always_allow |-> options.show_always_allow,
                   show_always_block |-> options.show_always_block,
                   choice |-> choice]
        response == request_confirmation(choice, options)
    IN  IF ~response.raised
        THEN Enforced(<<dialog>>,
                      <<UserConfirmation(is_request, response.user_decision,
                                         call_type)>>,
                      "return", None)
        ELSE Enforced(<<dialog>>,
                      <<UserConfirmation(is_request, "BLOCK", call_type)>>,
                      "raise", UserBlocked)

\* The need_more_info branch building its message and not raising it.
EnforceNeedMoreInfo_returning(verdict, is_request) ==
    Enforced(<<>>, <<>>, "return", None)

\* decision_type == "need_more_info".
EnforceNeedMoreInfo(verdict, is_request) ==
    Enforced(<<>>, <<>>, "raise", NeedMoreInfo(is_request))

\* _enforce_decision recording an ALLOW for an allow verdict.
_enforce_decision_recording_allow(verdict, is_request, choice) ==
    LET decision_type == DictGet(verdict, "decision", "block")
    IN  CASE decision_type = "allow" ->
               Enforced(<<>>,
                        <<UserConfirmation(is_request, "ALLOW",
                                           verdict.call_type)>>,
                        "return", None)
          [] decision_type = "block" ->
               EnforceBlock(verdict, is_request, choice)
          [] decision_type = "required_explicit_user_confirmation" ->
               EnforceConfirmation(verdict, is_request, choice)
          [] decision_type = "need_more_info" ->
               EnforceNeedMoreInfo(verdict, is_request)
          [] OTHER ->
               Enforced(<<>>, <<>>, "return", None)

\* _enforce_decision for a verdict, given what the user does if a dialog opens.
_enforce_decision(verdict, is_request, choice) ==
    LET decision_type == DictGet(verdict, "decision", "block")
    IN  CASE decision_type = "allow" ->
               Enforced(<<>>, <<>>, "return", None)
          [] decision_type = "block" ->
               EnforceBlock(verdict, is_request, choice)
          [] decision_type = "required_explicit_user_confirmation" ->
               EnforceConfirmation(verdict, is_request, choice)
          [] decision_type = "need_more_info" ->
               EnforceNeedMoreInfo(verdict, is_request)
          [] OTHER ->
               \* no branch matches: the coroutine falls off its end
               Enforced(<<>>, <<>>, "return", None)

\* The POST of a confirmation can fail (the client raises) or not.
RecordFailures == BOOLEAN

\* With several operations in flight the recordings are taken to work.
PipelineRecordFailures == {FALSE}

\* What a failed recording would raise if it were let through.
RecordError == "record_user_confirmation error"

\* _record_user_confirmation letting the failure of the POST through.
_record_user_confirmation_propagating(failed) == [raised |-> failed]

\* _record_user_confirmation: the whole body sits in try / except Exception,
\* a failure is logged and nothing is raised.
_record_user_confirmation(failed) == [raised |-> FALSE]

\* The user can only do what the dialog that opened offers (with no dialog
\* the user's action plays no part: one action stands for all).
ChoicePossible(enforced, choice) ==
    IF enforced.dialog = <<>> THEN choice = "BLOCK"
    ELSE choice \in ChoicesOffered(enforced.dialog[1])

----------------------------------------------------------------------------
(* SecurityMiddleware._handle_operation, cut at its suspension points.     *)

\* A generator whose ids repeat within a millisecond (no random part).
generate_event_id_repeating ==
    IF last_event_id = 0 THEN last_event_id + 1 ELSE last_event_id

\* generate_event_id: "<millis>-<8 hex of a uuid4>", taken to be fresh.
generate_event_id == last_event_id + 1

\* What the policy service can do with an inspect call: answer with one of
\* the verdicts V, or fail (the client raises).
Replies(V) ==
    {[raised |-> FALSE, verdict |-> v] : v \in V}
    \cup {[raised |-> TRUE, verdict |-> NoVerdict]}

\* _inspect_request / _inspect_response: a failed call is not repeated, the
\* except branch answers with the synthesised verdict.
InspectionVerdict(reply) ==
    IF reply.raised THEN _create_security_api_failure_decision
    ELSE reply.verdict

InspectionSteps(is_request, reply) ==
    (IF reply.raised
     THEN <<IF is_request THEN "inspect_policy_request_failed"
            ELSE "inspect_policy_response_failed">>
     ELSE <<>>)
    \o <<IF is_request THEN "request_verdict" ELSE "response_verdict">>

\* A stretch of the handler: the audit events it emits, the steps it takes
\* (audit events included) and where it stops.
Stretch(audit, steps, stop) == [audit |-> audit, steps |-> steps, pc |-> stop]

\* Entry of the handler up to the await of _inspect_request.
BeforeRequestInspection ==
    Stretch(<<"agent_request">>,
            <<"agent_request", "inspect_policy_request">>,
            "inspect_request")

\* The request is forwarded whatever enforcement did.
AfterRequestEnforcement_forwarding_denied(outcome) ==
    Stretch(<<"agent_request_forwarded">>,
            <<"agent_request_forwarded", "call_next">>,
            "call_next")

\* agent_request_forwarded is logged before the outcome is looked at.
AfterRequestEnforcement_logging_first(outcome) ==
    IF outcome = "return"
    THEN Stretch(<<"agent_request_forwarded">>,
                 <<"agent_request_forwarded", "call_next">>,
                 "call_next")
    ELSE Stretch(<<"agent_request_forwarded">>,
                 <<"agent_request_forwarded">>, "raised")

\* From the end of request enforcement to the await of call_next.
AfterRequestEnforcement(outcome) ==
    IF outcome = "return"
    THEN Stretch(<<"agent_request_forwarded">>,
                 <<"agent_request_forwarded", "call_next">>,
                 "call_next")
    ELSE Stretch(<<>>, <<>>, "raised")

\* mcp_response is not logged.
AfterCallNext_silent(outcome) ==
    IF outcome = "return"
    THEN Stretch(<<>>, <<"call_next_returned", "inspect_policy_response">>,
                 "inspect_response")
    ELSE Stretch(<<>>, <<"call_next_raised">>, "raised")

\* From the end of call_next to the await of _inspect_response.
AfterCallNext(outcome) ==
    IF outcome = "return"
    THEN Stretch(<<"mcp_response">>,
                 <<"call_next_returned", "mcp_response",
                   "inspect_policy_response">>,
                 "inspect_response")
    ELSE Stretch(<<>>, <<"call_next_raised">>, "raised")

\* The result is returned whatever enforcement did.
AfterResponseEnforcement_returning_denied(outcome) ==
    Stretch(<<"mcp_response_forwarded">>,
            <<"mcp_response_forwarded", "return_result">>,
            "returned")

\* From the end of response enforcement to the return of the result.
AfterResponseEnforcement(outcome) ==
    IF outcome = "return"
    THEN Stretch(<<"mcp_response_forwarded">>,
                 <<"mcp_response_forwarded", "return_result">>,
                 "returned")
    ELSE Stretch(<<>>, <<>>, "raised")

\* _enforce_decision ends: it returns, or it raises.
EnforcementEnd(is_request, outcome) ==
    IF outcome = "return"
    THEN <<IF is_request THEN "request_enforced" ELSE "response_enforced">>
    ELSE <<IF is_request THEN "request_denied" ELSE "response_denied">>

AfterEnforcement(is_request, outcome) ==
    IF is_request THEN AfterRequestEnforcement(outcome)
    ELSE AfterResponseEnforcement(outcome)

\* Nothing waits behind a recording.
NoPending == [outcome |-> None, error |-> None]

\* The writes of the audit sink can fail or not.
AuditWrites == BOOLEAN

\* Where nothing is asked about the sink, its writes are taken to work.
PipelineAuditWrites == {TRUE}

\* What a log_event call would raise if the failure of its write were let
\* through.
AuditError == "log_event error"

\* log_event letting the failure of its write through.
log_event_raising(written) == [raised |-> ~written]

\* AuditTrailLogger.log_event: the event is emitted; a failure of the write
\* to the sink is kept from the caller.
log_event(written) == [raised |-> FALSE]

\* The stretch s with its log_event call made: the callers do not guard the
\* call, so if it raised the handler would end there with that error.
Logged(s, written) ==
    IF s.audit = <<>> THEN s
    ELSE IF log_event(written).raised
    THEN Stretch(<<>>, <<"log_event_raised">>, "raised")
    ELSE IF written THEN s
    ELSE Stretch(<<>>, <<"audit_write_failed">> \o s.steps, s.pc)

\* Task o runs the stretch s of the handler for event e, with its audit
\* write working or not, and ends with the given error if it ends.
Run(o, e, before, s, error, W) ==
    \E written \in W :
        /\ s.audit = <<>> => written
        /\ LET logged == Logged(s, written)
               raising == s.audit # <<>> /\ log_event(written).raised
           IN  /\ pc' = [pc EXCEPT ![o] = logged.pc]
               /\ audit_log' = [audit_log EXCEPT ![e] = @ \o logged.audit]
               /\ trace' = [trace EXCEPT ![o] = @ \o before \o logged.steps]
               /\ raised_error' =
                      [raised_error EXCEPT
                          ![o] = IF raising THEN AuditError ELSE error]

\* The tools/list requests of a run.
Lists == 1..MaxLists

\* No tools/list request has arrived yet.
NoListing ==
    /\ now = 0
    /\ _last_tools_init_time = <<>>
    /\ app_id = ""
    /\ tools_list = [t \in Lists |->
                        [pc |-> "idle", has_tools |-> FALSE, handled_at |-> -1,
                         order |-> 0, init |-> "none", result |-> "none"]]
    /\ init_tools_calls = <<>>

\* No function has been called on its own.
NoCall == [function |-> "none"]

\* No operation has arrived yet.
Idle ==
    /\ pc = [o \in Ops |-> "idle"]
    /\ event_id = [o \in Ops |-> 0]
    /\ last_event_id = 0
    /\ audit_log = [e \in EventIds |-> <<>>]
    /\ trace = [o \in Ops |-> <<>>]
    /\ decision = [o \in Ops |-> NoVerdict]
    /\ dialogs = [o \in Ops |-> <<>>]
    /\ confirmations = [o \in Ops |-> <<>>]
    /\ pending = [o \in Ops |-> NoPending]
    /\ raised_error = [o \in Ops |-> None]

\* The proxy starts with the default options.
Init ==
    /\ Idle
    /\ MIN_BLOCK_SEVERITY = "low"
    /\ ALLOW_BLOCK_OVERRIDE = TRUE
    /\ call = NoCall
    /\ NoListing

\* The proxy starts with any setting of the options.
InitOperation ==
    /\ Idle
    /\ MIN_BLOCK_SEVERITY \in MinBlockSeverityValues
    /\ ALLOW_BLOCK_OVERRIDE \in BOOLEAN
    /\ call = NoCall
    /\ NoListing

\* A message arrives and _handle_operation starts (operations are numbered
\* in the order they arrive).
StartOperation(o, handler, W) ==
    /\ pc[o] = "idle"
    /\ \A earlier \in 1..(o - 1) : pc[earlier] # "idle"
    /\ LET e == generate_event_id
       IN  /\ event_id' = [event_id EXCEPT ![o] = e]
           /\ last_event_id' = e
           /\ Run(o, e, handler, BeforeRequestInspection, raised_error[o], W)
    /\ UNCHANGED <<decision, dialogs, confirmations, pending, config>>

HandleOperation(o, W) ==
    /\ StartOperation(o, <<>>, W)
    /\ UNCHANGED <<call, listing>>

\* An inspection ends (with a verdict of V, or by failing), the user does one
\* of C if a dialog opens, and the handler
\* runs on through _enforce_decision: to the await of
\* _record_user_confirmation when a dialog was shown, else to the end of the
\* enforcement and beyond.
Inspected(o, is_request, V, C, W) ==
    \E reply \in Replies(V), choice \in C :
        LET verdict == InspectionVerdict(reply)
            enforced == _enforce_decision(verdict, is_request, choice)
            seen == InspectionSteps(is_request, reply)
        IN  /\ ChoicePossible(enforced, choice)
            /\ decision' = [decision EXCEPT ![o] = verdict]
            /\ dialogs' = [dialogs EXCEPT ![o] = @ \o enforced.dialog]
            /\ confirmations' =
                   [confirmations EXCEPT
                       ![o] = @ \o RecordCalls(enforced.record, event_id[o])]
            /\ IF enforced.record # <<>>
               THEN /\ Run(o, event_id[o], seen,
                           Stretch(<<>>, <<"record_user_confirmation">>,
                                   IF is_request THEN "record_request"
                                   ELSE "record_response"),
                           raised_error[o], W)
                    /\ pending' = [pending EXCEPT ![o] =
                                      [outcome |-> enforced.outcome,
                                       error |-> enforced.error]]
               ELSE /\ Run(o, event_id[o],
                           seen \o EnforcementEnd(is_request, enforced.outcome),
                           AfterEnforcement(is_request, enforced.outcome),
                           enforced.error, W)
                    /\ UNCHANGED pending

InspectRequestReturn(o, V, C, W) ==
    /\ pc[o] = "inspect_request"
    /\ Inspected(o, TRUE, V, C, W)
    /\ UNCHANGED <<event_id, last_event_id, config>>
    /\ UNCHANGED <<call, listing>>

InspectResponseReturn(o, V, C, W) ==
    /\ pc[o] = "inspect_response"
    /\ Inspected(o, FALSE, V, C, W)
    /\ UNCHANGED <<event_id, last_event_id, config>>
    /\ UNCHANGED <<call, listing>>

\* _record_user_confirmation ends: whether the POST worked or failed (the
\* failure is logged and swallowed), enforcement returns or raises as the
\* dialog decided.
Recorded(o, is_request, F, W) ==
    \E failed \in F :
        LET recorded == _record_user_confirmation(failed)
            outcome == IF recorded.raised THEN "raise" ELSE pending[o].outcome
            error == IF recorded.raised THEN RecordError ELSE pending[o].error
            seen == IF failed
                    THEN <<IF is_request THEN "record_request_failed"
                           ELSE "record_response_failed">>
                    ELSE <<>>
        IN  /\ Run(o, event_id[o],
                   seen \o EnforcementEnd(is_request, outcome),
                   AfterEnforcement(is_request, outcome), error, W)
            /\ pending' = [pending EXCEPT ![o] = NoPending]
            /\ UNCHANGED <<event_id, last_event_id, decision, dialogs,
                           confirmations, config>>

RecordRequestReturn(o, F, W) ==
    /\ pc[o] = "record_request"
    /\ Recorded(o, TRUE, F, W)
    /\ UNCHANGED <<call, listing>>

RecordResponseReturn(o, F, W) ==
    /\ pc[o] = "record_response"
    /\ Recorded(o, FALSE, F, W)
    /\ UNCHANGED <<call, listing>>

\* The wrapped server answers.
CallNextReturn(o, W) ==
    /\ pc[o] = "call_next"
    /\ Run(o, event_id[o], <<>>, AfterCallNext("return"), raised_error[o], W)
    /\ UNCHANGED <<event_id, last_event_id, decision, dialogs, confirmations,
                   pending, config>>
    /\ UNCHANGED <<call, listing>>

\* The wrapped server call raises; the handler lets the error through.
CallNextRaise(o) ==
    /\ pc[o] = "call_next"
    /\ Run(o, event_id[o], <<>>, AfterCallNext("raise"),
           "wrapped server error", PipelineAuditWrites)
    /\ UNCHANGED <<event_id, last_event_id, decision, dialogs, confirmations,
                   pending, config>>
    /\ UNCHANGED <<call, listing>>

\* The upstream request is cancelled while the task is suspended: the
\* handler is abandoned where it waits.
Cancel(o) ==
    /\ pc[o] \in AwaitPoints
    /\ pc' = [pc EXCEPT ![o] = "cancelled"]
    /\ trace' = [trace EXCEPT ![o] = Append(@, "cancelled")]
    /\ UNCHANGED <<event_id, last_event_id, audit_log, decision, dialogs,
                   confirmations, pending, raised_error, config>>
    /\ UNCHANGED <<call, listing>>

Next ==
    \E o \in Ops :
        \/ HandleOperation(o, PipelineAuditWrites)
        \/ InspectRequestReturn(o, PipelineVerdicts, PipelineChoices,
                                PipelineAuditWrites)
        \/ RecordRequestReturn(o, PipelineRecordFailures, PipelineAuditWrites)
        \/ CallNextReturn(o, PipelineAuditWrites)
        \/ CallNextRaise(o)
        \/ InspectResponseReturn(o, PipelineVerdicts, PipelineChoices,
                                 PipelineAuditWrites)
        \/ RecordResponseReturn(o, PipelineRecordFailures, PipelineAuditWrites)
        \/ Cancel(o)

Spec == Init /\ [][Next]_vars

\* One operation, with every verdict shape, every user action and every
\* setting of the options.
NextOperation ==
    \/ HandleOperation(1, PipelineAuditWrites)
    \/ InspectRequestReturn(1, AllVerdicts, DialogChoices, PipelineAuditWrites)
    \/ RecordRequestReturn(1, RecordFailures, PipelineAuditWrites)
    \/ CallNextReturn(1, PipelineAuditWrites)
    \/ CallNextRaise(1)
    \/ InspectResponseReturn(1, AllVerdicts, DialogChoices, PipelineAuditWrites)
    \/ RecordResponseReturn(1, RecordFailures, PipelineAuditWrites)
    \/ Cancel(1)

SpecOperation == InitOperation /\ [][NextOperation]_vars

----------------------------------------------------------------------------
(* Functions of the middleware taken on their own: each action calls one   *)
(* with inputs of its own choosing and keeps the inputs and the result.    *)

\* Argument names, each spelled as the pieces of text it is made of: two
\* wrapper arguments, a tool argument, and names that hold the prefix
\* without beginning with it.
ArgumentKeys ==
    {<<"__wrapper_", "userPrompt">>, <<"__wrapper_", "modelIntent">>,
     <<"path">>, <<"__wrapper", "path">>, <<"wrapper_", "__wrapper_">>}

ArgumentValues == {"v1", "v2"}

\* The dicts a call can carry as its arguments (the empty one included).
ArgumentDicts == UNION {[K -> ArgumentValues] : K \in SUBSET ArgumentKeys}

\* context.message: with an arguments attribute (tools/call, prompts/get),
\* or without one (resources/read), its other attributes in fields.
Messages ==
    {[has_arguments |-> TRUE, arguments |-> d,
      fields |-> [k \in {<<"name">>} |-> "v1"]] : d \in ArgumentDicts}
    \cup {[has_arguments |-> FALSE, arguments |-> <<>>,
           fields |-> [k \in {<<"uri">>} |-> "v1"]]}

\* key.startswith(prefix)
startswith(key, prefix) == Len(key) >= 1 /\ key[1] = prefix

\* The entries of the dict d under the keys K.
Restrict(d, K) == [k \in K |-> d[k]]

\* The split building the cleaned message from all the arguments.
_split_context_arguments_keeping_all(message) ==
    LET has == message.has_arguments /\ DOMAIN message.arguments # {}
        arguments == IF has THEN message.arguments ELSE message.fields
        wrapper == {k \in DOMAIN arguments : startswith(k, "__wrapper_")}
    IN  [wrapper_args |-> Restrict(arguments, wrapper),
         tool_args |-> Restrict(arguments, DOMAIN arguments \ wrapper),
         cleaned_message |-> IF has
                             THEN [message EXCEPT !.arguments = arguments]
                             ELSE message]

\* _split_context_arguments: the arguments by prefix, and the message to
\* forward (a copy with the tool arguments only, or the message itself when
\* it has no arguments).
_split_context_arguments(message) ==
    LET has == message.has_arguments /\ DOMAIN message.arguments # {}
        arguments == IF has THEN message.arguments ELSE message.fields
        wrapper == {k \in DOMAIN arguments : startswith(k, "__wrapper_")}
        wrapper_args == Restrict(arguments, wrapper)
        tool_args == Restrict(arguments, DOMAIN arguments \ wrapper)
    IN  [wrapper_args |-> wrapper_args,
         tool_args |-> tool_args,
         cleaned_message |-> IF has
                             THEN [message EXCEPT !.arguments = tool_args]
                             ELSE message]

\* _handle_operation splits the arguments of a message and hands the cleaned
\* message to call_next.
SplitContextArguments ==
    /\ \E message \in Messages :
           LET split == _split_context_arguments(message)
           IN  call' = [function |-> "_split_context_arguments",
                        message |-> message,
                        wrapper_args |-> split.wrapper_args,
                        forwarded |-> split.cleaned_message]
    /\ UNCHANGED <<pipeline, listing>>

\* The need_fields and reasons of a need_more_info verdict.
FieldLists == UNION {[1..n -> NeedFields] : n \in 0..MaxFields}

ReasonLists == {<<>>, <<"reason">>}

\* The need_more_info branch of _enforce_decision builds its message.
BuildNeedMoreInfoMessage ==
    /\ \E is_request \in BOOLEAN, reasons \in ReasonLists,
          need_fields \in FieldLists :
           call' = [function |-> "need_more_info",
                    is_request |-> is_request,
                    reasons |-> reasons,
                    need_fields |-> need_fields,
                    message |-> need_more_info_message(is_request, reasons,
                                                       need_fields)]
    /\ UNCHANGED <<pipeline, listing>>

InitFunctions ==
    /\ Idle
    /\ MIN_BLOCK_SEVERITY = "low"
    /\ ALLOW_BLOCK_OVERRIDE = TRUE
    /\ call = NoCall
    /\ NoListing

NextFunctions ==
    \/ BuildNeedMoreInfoMessage
    \/ SplitContextArguments

SpecFunctions == InitFunctions /\ [][NextFunctions]_vars

----------------------------------------------------------------------------
(* SecurityMiddleware._handle_tools_list, cut at its suspension points.    *)

_TOOLS_INIT_DEBOUNCE_SECONDS == 60

\* The debounce test with its comparison turned round.
ToolsInitDue_turned(last, current_time) ==
    \/ last = <<>>
    \/ current_time - last[1] <= _TOOLS_INIT_DEBOUNCE_SECONDS

\* The debounce test: no init yet, or the last one 60 seconds ago or more.
ToolsInitDue(last, current_time) ==
    \/ last = <<>>
    \/ current_time - last[1] >= _TOOLS_INIT_DEBOUNCE_SECONDS

\* The update of _last_tools_init_time left to after the suspensions of
\* _call_init_api: the request that passed the test leaves the field as it
\* found it.
UpdatedInitTime_deferred(last, due, current_time) == last

\* self._last_tools_init_time = current_time, in the branch of the test.
UpdatedInitTime(last, due, current_time) ==
    IF due THEN <<current_time>> ELSE last

\* _call_init_api letting a failure through.
_call_init_api_propagating(failed) == [raised |-> failed]

\* _call_init_api: the whole body sits in try / except Exception, a failure
\* is logged and nothing is raised.
_call_init_api(failed) == [raised |-> FALSE]

\* The requests whose call_next has returned.
HandledLists == {t \in Lists : tools_list[t].order # 0}

\* The request t moves on.
ListStep(t, fields) ==
    tools_list' = [tools_list EXCEPT ![t] =
                      [f \in DOMAIN @ |->
                          IF f \in DOMAIN fields THEN fields[f] ELSE @[f]]]

\* _call_init_api ends for t, failed or not, and _handle_tools_list returns
\* the list with the augmented schemas.
InitEnds(t, failed, init) ==
    LET ended == _call_init_api(failed)
    IN  ListStep(t, [pc |-> IF ended.raised THEN "raised" ELSE "returned",
                     result |-> IF ended.raised THEN "error" ELSE "enhanced",
                     init |-> init])

\* A tools/list request arrives and is passed to the wrapped server.
HandleToolsList(t) ==
    /\ tools_list[t].pc = "idle"
    /\ \A earlier \in 1..(t - 1) : tools_list[earlier].pc # "idle"
    /\ ListStep(t, [pc |-> "call_next"])
    /\ UNCHANGED <<now, _last_tools_init_time, app_id, init_tools_calls>>
    /\ UNCHANGED <<pipeline, call>>

\* The wrapped server answers with its tools (or with none): the debounce
\* test and the update of _last_tools_init_time come with no suspension
\* between them, then _call_init_api waits for the roots.
ToolsListReturn(t) ==
    /\ tools_list[t].pc = "call_next"
    /\ \E has_tools \in BOOLEAN :
           LET due == has_tools /\ ToolsInitDue(_last_tools_init_time, now)
           IN  /\ ListStep(t, [has_tools |-> has_tools,
                               handled_at |-> now,
                               order |-> Cardinality(HandledLists) + 1,
                               pc |-> IF due THEN "list_roots" ELSE "returned",
                               init |-> IF due THEN "started" ELSE "none",
                               result |-> IF due THEN "none"
                                          ELSE IF has_tools THEN "enhanced"
                                          ELSE "unchanged"])
               /\ _last_tools_init_time' =
                      UpdatedInitTime(_last_tools_init_time, due, now)
    /\ UNCHANGED <<now, app_id, init_tools_calls>>
    /\ UNCHANGED <<pipeline, call>>

\* The wrapped server fails: the error goes to the client.
ToolsListRaise(t) ==
    /\ tools_list[t].pc = "call_next"
    /\ ListStep(t, [pc |-> "raised", result |-> "error"])
    /\ UNCHANGED <<now, _last_tools_init_time, app_id, init_tools_calls>>
    /\ UNCHANGED <<pipeline, call>>

\* _extract_workspace_roots ends (its own failures give no roots); the app
\* uid is read if the middleware has none, which can fail; then
\* client.init_tools is called.
ListRootsReturn(t) ==
    /\ tools_list[t].pc = "list_roots"
    /\ \E uid_read \in BOOLEAN :
           IF app_id = "" /\ ~uid_read
           THEN /\ InitEnds(t, TRUE, "uid_failed")
                /\ UNCHANGED <<app_id, init_tools_calls>>
           ELSE /\ uid_read
                /\ app_id' = "uid"
                /\ ListStep(t, [pc |-> "init_tools", init |-> "called"])
                /\ init_tools_calls' = Append(init_tools_calls, t)
    /\ UNCHANGED <<now, _last_tools_init_time>>
    /\ UNCHANGED <<pipeline, call>>

\* client.init_tools answers, or fails.
InitToolsReturn(t) ==
    /\ tools_list[t].pc = "init_tools"
    /\ \E failed \in BOOLEAN :
           InitEnds(t, failed, IF failed THEN "failed" ELSE "done")
    /\ UNCHANGED <<now, _last_tools_init_time, app_id, init_tools_calls>>
    /\ UNCHANGED <<pipeline, call>>

\* Time passes.
Tick ==
    /\ now + TickSeconds <= MaxTicks * TickSeconds
    /\ now' = now + TickSeconds
    /\ UNCHANGED <<_last_tools_init_time, app_id, tools_list, init_tools_calls>>
    /\ UNCHANGED <<pipeline, call>>

InitToolsList ==
    /\ Idle
    /\ MIN_BLOCK_SEVERITY = "low"
    /\ ALLOW_BLOCK_OVERRIDE = TRUE
    /\ call = NoCall
    /\ NoListing

NextToolsList ==
    \/ \E t \in Lists :
           \/ HandleToolsList(t)
           \/ ToolsListReturn(t)
           \/ ToolsListRaise(t)
           \/ ListRootsReturn(t)
           \/ InitToolsReturn(t)
    \/ Tick

SpecToolsList == InitToolsList /\ [][NextToolsList]_vars

\* ---------------------------------------------------------------------
\* The hook handlers of the IDE tools, and the audit sink.

\* What inspect_and_enforce does for a hook: it returns the decision, or it
\* raises because the policy or the user blocked.
HookEnforcements == {"allow", "policy_block", "user_block"}

\* output_result and output_error: what the hook prints for the IDE.
output_result(allowed, user_message) ==
    [kind |-> "result", allowed |-> allowed, message |-> user_message]

output_error(message) ==
    [kind |-> "error", allowed |-> FALSE, message |-> message]

\* The message of a denial, chosen from the text of the exception.
BlockedMessage(raised) ==
    IF raised = "user_block" THEN "blocked by user"
    ELSE "blocked by security policy"

\* handle_mcp_execution: the input is validated and parsed, the request is
\* logged, inspected and enforced, its forwarding is logged, and the
\* permission is printed.  The inner handler turns any exception after the
\* first log_event into a denial, the outer one any other into an error.
handle_mcp_execution(valid, parses, enforcement, written1, written2) ==
    IF ~valid THEN output_error("validation")
    ELSE IF ~parses THEN output_error("internal error")
    ELSE IF log_event(written1).raised THEN output_error("internal error")
    ELSE IF enforcement # "allow"
    THEN output_result(FALSE, BlockedMessage(enforcement))
    ELSE IF log_event(written2).raised
    THEN output_result(FALSE, BlockedMessage(AuditError))
    ELSE output_result(TRUE, "approved")

\* handle_read_file: as above, but a file without redactions is allowed
\* without inspection.
handle_read_file(valid, has_any_redactions, enforcement, written1, written2) ==
    IF ~valid THEN output_error("validation")
    ELSE IF log_event(written1).raised THEN output_error("unexpected error")
    ELSE IF ~has_any_redactions
    THEN IF log_event(written2).raised
         THEN output_error("unexpected error")
         ELSE output_result(TRUE, "")
    ELSE IF enforcement # "allow"
    THEN output_result(FALSE, BlockedMessage(enforcement))
    ELSE IF log_event(written2).raised
    THEN output_result(FALSE, BlockedMessage(AuditError))
    ELSE output_result(TRUE, "approved")

\* The forwarding logged as soon as inspect_and_enforce has ended, however
\* it ended.
AfterHookEnforcement_logging_first(enforcement, written) ==
    <<"agent_request_forwarded">>
        \o (IF enforcement # "allow" THEN <<"deny">> ELSE <<"allow">>)

\* What follows inspect_and_enforce in both handlers: when it raises, the
\* inner handler prints a denial; when it returns, agent_request_forwarded
\* is logged and then the permission is printed.
AfterHookEnforcement(enforcement, written) ==
    IF enforcement # "allow" THEN <<"deny">>
    ELSE IF log_event(written).raised THEN <<"deny">>
    ELSE <<"agent_request_forwarded", "allow">>

\* The log_event calls, the inspection and the verdict printed by
\* handle_mcp_execution, in their order.
mcp_execution_steps(valid, parses, enforcement, written1, written2) ==
    IF ~valid \/ ~parses THEN <<"error">>
    ELSE IF log_event(written1).raised THEN <<"error">>
    ELSE <<"agent_request", "inspect_and_enforce">>
         \o AfterHookEnforcement(enforcement, written2)

\* The same for handle_read_file.
read_file_steps(valid, has_any_redactions, enforcement, written1, written2) ==
    IF ~valid THEN <<"error">>
    ELSE IF log_event(written1).raised THEN <<"error">>
    ELSE IF ~has_any_redactions
    THEN IF log_event(written2).raised
         THEN <<"agent_request", "error">>
         ELSE <<"agent_request", "agent_request_forwarded", "allow">>
    ELSE <<"agent_request", "inspect_and_enforce">>
         \o AfterHookEnforcement(enforcement, written2)

\* A hook process is started for one MCP execution, handles it and exits.
HookMcpExecution ==
    /\ call = NoCall
    /\ \E valid \in BOOLEAN, parses \in BOOLEAN,
          enforcement \in HookEnforcements,
          written1 \in AuditWrites, written2 \in AuditWrites :
           call' = [function |-> "handle_mcp_execution",
                    valid |-> valid,
                    content |-> parses,
                    enforcement |-> enforcement,
                    written |-> <<written1, written2>>,
                    steps |-> mcp_execution_steps(valid, parses, enforcement,
                                                  written1, written2),
                    output |-> handle_mcp_execution(valid, parses, enforcement,
                                                    written1, written2)]
    /\ UNCHANGED <<pipeline, listing>>

\* A hook process is started for one file read, handles it and exits.
HookReadFile ==
    /\ call = NoCall
    /\ \E valid \in BOOLEAN, has_any_redactions \in BOOLEAN,
          enforcement \in HookEnforcements,
          written1 \in AuditWrites, written2 \in AuditWrites :
           call' = [function |-> "handle_read_file",
                    valid |-> valid,
                    content |-> has_any_redactions,
                    enforcement |-> enforcement,
                    written |-> <<written1, written2>>,
                    steps |-> read_file_steps(valid, has_any_redactions,
                                              enforcement,
                                              written1, written2),
                    output |-> handle_read_file(valid, has_any_redactions,
                                                enforcement,
                                                written1, written2)]
    /\ UNCHANGED <<pipeline, listing>>

\* One operation of the wrapper and the hook handlers, with an audit sink
\* whose writes can fail.
NextAudit ==
    \/ HandleOperation(1, AuditWrites)
    \/ InspectRequestReturn(1, PipelineVerdicts, PipelineChoices, AuditWrites)
    \/ RecordRequestReturn(1, PipelineRecordFailures, AuditWrites)
    \/ CallNextReturn(1, AuditWrites)
    \/ CallNextRaise(1)
    \/ InspectResponseReturn(1, PipelineVerdicts, PipelineChoices, AuditWrites)
    \/ RecordResponseReturn(1, PipelineRecordFailures, AuditWrites)
    \/ Cancel(1)
    \/ HookMcpExecution
    \/ HookReadFile

SpecAudit == Init /\ [][NextAudit]_vars

\* ---------------------------------------------------------------------
\* The handlers of what the wrapped server sends to the client.

\* secure_sampling_handler: a sampling request of the wrapped server is
\* handled as an operation with a synthetic context; its call_next is the
\* default sampling handler, which sends it to the client.
SecureSamplingHandler(o) ==
    /\ StartOperation(o, <<"secure_sampling_handler">>, PipelineAuditWrites)
    /\ UNCHANGED <<call, listing>>

\* secure_elicitation_handler: the same for an elicitation request.
SecureElicitationHandler(o) ==
    /\ StartOperation(o, <<"secure_elicitation_handler">>, PipelineAuditWrites)
    /\ UNCHANGED <<call, listing>>

\* The data of a log notification: a string, or a dict.
LogData == {"str", "dict"}

\* secure_log_handler: a string as data is put into a dict, and the
\* notification is handed to the default log handler, which sends it to the
\* client.  No event is emitted, no inspection is asked for and nothing is
\* enforced on the way.
secure_log_handler(data) ==
    [audit |-> <<>>,
     steps |-> <<"secure_log_handler", "default_log_handler">>,
     data |-> IF data = "str" THEN "dict" ELSE data]

\* A log notification of the wrapped server arrives.
SecureLogHandler ==
    /\ \E data \in LogData :
           LET handled == secure_log_handler(data)
           IN  call' = [function |-> "secure_log_handler",
                        data |-> data,
                        audit |-> handled.audit,
                        steps |-> handled.steps,
                        forwarded |-> handled.data]
    /\ UNCHANGED <<pipeline, listing>>

\* One operation, started by the client or by the wrapped server, and the
\* log notifications of the wrapped server.
NextServerMessages ==
    \/ HandleOperation(1, PipelineAuditWrites)
    \/ SecureSamplingHandler(1)
    \/ SecureElicitationHandler(1)
    \/ InspectRequestReturn(1, PipelineVerdicts, PipelineChoices,
                            PipelineAuditWrites)
    \/ RecordRequestReturn(1, PipelineRecordFailures, PipelineAuditWrites)
    \/ CallNextReturn(1, PipelineAuditWrites)
    \/ CallNextRaise(1)
    \/ InspectResponseReturn(1, PipelineVerdicts, PipelineChoices,
                             PipelineAuditWrites)
    \/ RecordResponseReturn(1, PipelineRecordFailures, PipelineAuditWrites)
    \/ Cancel(1)
    \/ SecureLogHandler

SpecServerMessages == Init /\ [][NextServerMessages]_vars

\* ---------------------------------------------------------------------
\* One proxy process that receives a tools/list request and an operation,
\* in any order and interleaved at their suspension points.

NextSession ==
    \/ HandleOperation(1, PipelineAuditWrites)
    \/ InspectRequestReturn(1, PipelineVerdicts, PipelineChoices,
                            PipelineAuditWrites)
    \/ RecordRequestReturn(1, PipelineRecordFailures, PipelineAuditWrites)
    \/ CallNextReturn(1, PipelineAuditWrites)
    \/ CallNextRaise(1)
    \/ InspectResponseReturn(1, PipelineVerdicts, PipelineChoices,
                             PipelineAuditWrites)
    \/ RecordResponseReturn(1, PipelineRecordFailures, PipelineAuditWrites)
    \/ Cancel(1)
    \/ HandleToolsList(1)
    \/ ToolsListReturn(1)
    \/ ToolsListRaise(1)
    \/ ListRootsReturn(1)
    \/ InitToolsReturn(1)

SpecSession == Init /\ [][NextSession]_vars

\* ---------------------------------------------------------------------
\* read_app_uid (modules/utils/ids.py) and the app_uid file of a workspace.
\* A text is a sequence of pieces: white space, the text of a UUID, or other
\* text.  No file is NoFile.

MaxCalls == 4

Ws == [kind |-> "white space", id |-> 0]

Junk == [kind |-> "other text", id |-> 0]

Uuid(n) == [kind |-> "uuid", id |-> n]

NoFile == <<[kind |-> "no file", id |-> 0]>>

\* What the file can hold before the first call.
FileContents ==
    {NoFile, <<>>, <<Ws>>, <<Junk>>, <<Uuid(1)>>, <<Uuid(1), Ws>>,
     <<Ws, Uuid(2), Ws>>, <<Uuid(1), Junk>>, <<Uuid(1), Ws, Uuid(2)>>}

\* str.strip(): white space is taken off both ends.
RECURSIVE lstrip(_)
lstrip(text) ==
    IF text # <<>> /\ Head(text) = Ws THEN lstrip(Tail(text)) ELSE text

RECURSIVE rstrip(_)
rstrip(text) ==
    IF text # <<>> /\ text[Len(text)] = Ws
    THEN rstrip(SubSeq(text, 1, Len(text) - 1))
    ELSE text

strip(text) == rstrip(lstrip(text))

\* is_valid_uuid: uuid.UUID(uuid_string) does not raise.
is_valid_uuid(uuid_string) ==
    /\ Len(uuid_string) = 1
    /\ uuid_string[1].kind = "uuid"

\* read_app_uid validating the text of the file as it is, not stripped.
read_app_uid_unstripped(file, uuid4, mkdir_fails) ==
    IF mkdir_fails
    THEN [raised |-> TRUE, file |-> file, wrote |-> FALSE, uid |-> <<>>]
    ELSE IF file # NoFile /\ is_valid_uuid(file)
    THEN [raised |-> FALSE, file |-> file, wrote |-> FALSE, uid |-> strip(file)]
    ELSE [raised |-> FALSE, file |-> <<uuid4>>, wrote |-> TRUE,
          uid |-> <<uuid4>>]

\* read_app_uid: the directory is made (which can fail); a file that exists
\* and holds a valid UUID once stripped is returned stripped and left as it
\* is; otherwise a fresh UUID is written and returned.
read_app_uid(file, uuid4, mkdir_fails) ==
    IF mkdir_fails
    THEN [raised |-> TRUE, file |-> file, wrote |-> FALSE, uid |-> <<>>]
    ELSE IF file # NoFile /\ is_valid_uuid(strip(file))
    THEN [raised |-> FALSE, file |-> file, wrote |-> FALSE, uid |-> strip(file)]
    ELSE [raised |-> FALSE, file |-> <<uuid4>>, wrote |-> TRUE,
          uid |-> <<uuid4>>]

\* uuid.uuid4(): a UUID that was not there before.
uuid4 == Uuid(10 + Len(call.calls))

\* One more call of read_app_uid for the workspace, by this process or by
\* another one, after the calls before it have ended.
ReadAppUid ==
    /\ call.function = "read_app_uid"
    /\ Len(call.calls) < MaxCalls
    /\ \E mkdir_fails \in BOOLEAN :
           LET read == read_app_uid(call.file, uuid4, mkdir_fails)
           IN  call' = [function |-> "read_app_uid",
                        file |-> read.file,
                        calls |-> Append(call.calls,
                                         [before |-> call.file,
                                          after |-> read.file,
                                          raised |-> read.raised,
                                          wrote |-> read.wrote,
                                          uid |-> read.uid])]
    /\ UNCHANGED <<pipeline, listing>>

InitAppUid ==
    /\ Idle
    /\ MIN_BLOCK_SEVERITY = "low"
    /\ ALLOW_BLOCK_OVERRIDE = TRUE
    /\ NoListing
    /\ \E file \in FileContents :
           call = [function |-> "read_app_uid", file |-> file, calls |-> <<>>]

NextAppUid == ReadAppUid

SpecAppUid == InitAppUid /\ [][NextAppUid]_vars

\* Two processes inside read_app_uid for the same workspace at once. Each
\* goes through the file operations of the function one at a time:
\* uid_path.exists(), uid_path.read_text(), and the two halves of
\* uid_path.write_text(new_uid), which opens the file for writing (it is
\* then there and empty) and writes the text.
Processes == {1, 2}

\* uuid.uuid4() of process p: no two processes draw the same one.
uuid4_of(p) == Uuid(20 + p)

RaceStep(p, pc_after, uid, file) ==
    call' = [call EXCEPT !.file = file,
                         !.process[p] = [pc |-> pc_after, uid |-> uid]]

\* if uid_path.exists():
RaceExists(p) ==
    /\ call.function = "read_app_uid_race"
    /\ call.process[p].pc = "exists"
    /\ RaceStep(p, IF call.file # NoFile THEN "read_text" ELSE "open",
                <<>>, call.file)
    /\ UNCHANGED <<pipeline, listing>>

\* existing_uid = uid_path.read_text().strip(), returned if it is valid (a
\* file that went away since exists() is not modelled: nothing removes it).
RaceRead(p) ==
    /\ call.function = "read_app_uid_race"
    /\ call.process[p].pc = "read_text"
    /\ LET existing_uid == strip(call.file)
       IN  IF is_valid_uuid(existing_uid)
           THEN RaceStep(p, "returned", existing_uid, call.file)
           ELSE RaceStep(p, "open", <<>>, call.file)
    /\ UNCHANGED <<pipeline, listing>>

\* new_uid = str(uuid.uuid4()); write_text opens the file, which truncates
\* it.
RaceOpen(p) ==
    /\ call.function = "read_app_uid_race"
    /\ call.process[p].pc = "open"
    /\ RaceStep(p, "write", <<uuid4_of(p)>>, <<>>)
    /\ UNCHANGED <<pipeline, listing>>

\* write_text writes new_uid and read_app_uid returns it.
RaceWrite(p) ==
    /\ call.function = "read_app_uid_race"
    /\ call.process[p].pc = "write"
    /\ RaceStep(p, "returned", call.process[p].uid, call.process[p].uid)
    /\ UNCHANGED <<pipeline, listing>>

InitAppUidRace ==
    /\ Idle
    /\ MIN_BLOCK_SEVERITY = "low"
    /\ ALLOW_BLOCK_OVERRIDE = TRUE
    /\ NoListing
    /\ \E file \in FileContents :
           call = [function |-> "read_app_uid_race",
                   initial |-> file,
                   file |-> file,
                   process |-> [p \in Processes |->
                                   [pc |-> "exists", uid |-> <<>>]]]

NextAppUidRace ==
    \E p \in Processes :
        \/ RaceExists(p)
        \/ RaceRead(p)
        \/ RaceOpen(p)
        \/ RaceWrite(p)

SpecAppUidRace == InitAppUidRace /\ [][NextAppUidRace]_vars

\* ---------------------------------------------------------------------
\* The hook processes of the IDE tools: the router of Claude Code
\* (ide_tools/claude_code/router.py) and the shared read-file handler.

\* Nothing on stdout, and the exit code of sys.exit(1).
ExitOne == [stdout |-> <<>>, exit_code |-> 1]

\* The output format of Claude Code with a deny that exits with 2.
CLAUDE_CODE_OUTPUT_deny_exits_2 ==
    [allow_exit_code |-> 0, deny_exit_code |-> 2, error_exit_code |-> 1]

\* CLAUDE_CODE_OUTPUT: the exit codes of the Claude Code hooks.
CLAUDE_CODE_OUTPUT ==
    [allow_exit_code |-> 0, deny_exit_code |-> 0, error_exit_code |-> 1]

\* claude_code_output_formatter: the JSON object printed for a verdict.
claude_code_output_formatter(hook_type, allowed) ==
    IF hook_type = "permission"
    THEN [permissionDecision |-> IF allowed THEN "allow" ELSE "deny",
          decision |-> Absent]
    ELSE [permissionDecision |-> Absent,
          decision |-> IF allowed THEN Absent ELSE "block"]

\* What a handler leaves behind when it ends through output_result or
\* output_error: the formatted verdict on stdout and the exit code of the
\* format (an error is printed as a deny and exits with error_exit_code).
Emit(format, hook_type, output) ==
    [stdout |-> <<claude_code_output_formatter(hook_type, output.allowed)>>,
     exit_code |-> IF output.kind = "error" THEN format.error_exit_code
                   ELSE IF output.allowed THEN format.allow_exit_code
                   ELSE format.deny_exit_code]

\* The hook_event_name of the input: absent, one the router knows, or another.
HookEventNames ==
    {Absent, "SessionStart", "UserPromptSubmit", "PreToolUse", "Stop"}

\* The tool_name of a PreToolUse input.
ToolNames == {"Read", "Grep", "Bash", "Write"}

\* How the handler the router calls ends: with an allow, with a deny, with
\* output_error for an input it does not accept, or with an exception.
HandlerEnds == {"allow", "deny", "error", "raise"}

\* The inputs of a Claude Code hook process.
HookInputs ==
    [json_valid : BOOLEAN, hook_event_name : HookEventNames,
     session_id : BOOLEAN, cwd : BOOLEAN, tool_name : ToolNames,
     handler : HandlerEnds]

\* The output of a handler that is not handle_read_file, by how it ends.
HandlerOutput(end) ==
    IF end = "error" THEN output_error("validation")
    ELSE output_result(end = "allow", "")

\* The output of handle_read_file, by how it ends.
ReadFileOutput(end) ==
    CASE end = "allow" -> handle_read_file(TRUE, TRUE, "allow", TRUE, TRUE)
      [] end = "deny" ->
             handle_read_file(TRUE, TRUE, "policy_block", TRUE, TRUE)
      [] OTHER -> handle_read_file(FALSE, TRUE, "allow", TRUE, TRUE)

\* route_claude_code_hook: the input is parsed and its three fields are
\* checked (sys.exit(1) with nothing printed), the handler of the event is
\* run, an unknown tool of PreToolUse is allowed, an unknown event and any
\* exception end in sys.exit(1) with nothing printed.
route_claude_code_hook(input) ==
    IF ~input.json_valid THEN ExitOne
    ELSE IF input.hook_event_name = Absent THEN ExitOne
    ELSE IF ~input.session_id THEN ExitOne
    ELSE IF ~input.cwd THEN ExitOne
    ELSE IF input.hook_event_name = "SessionStart"
    THEN IF input.handler = "raise" THEN ExitOne
         ELSE Emit(CLAUDE_CODE_OUTPUT, "permission",
                   HandlerOutput(input.handler))
    ELSE IF input.hook_event_name = "UserPromptSubmit"
    THEN IF input.handler = "raise" THEN ExitOne
         ELSE Emit(CLAUDE_CODE_OUTPUT, "continue",
                   HandlerOutput(input.handler))
    ELSE IF input.hook_event_name = "PreToolUse"
    THEN IF input.tool_name \in {"Read", "Grep"}
         THEN IF input.handler = "raise" THEN ExitOne
              ELSE Emit(CLAUDE_CODE_OUTPUT, "permission",
                        ReadFileOutput(input.handler))
         ELSE IF input.tool_name = "Bash"
         THEN IF input.handler = "raise" THEN ExitOne
              ELSE Emit(CLAUDE_CODE_OUTPUT, "permission",
                        HandlerOutput(input.handler))
         ELSE [stdout |-> <<claude_code_output_formatter("permission", TRUE)>>,
               exit_code |-> 0]
    ELSE ExitOne

\* The handler every tool of PreToolUse is given to, as if the branch of
\* Bash had no condition.
routed_handler_shell_by_default(input) ==
    IF ~input.json_valid \/ input.hook_event_name = Absent
       \/ ~input.session_id \/ ~input.cwd
    THEN Absent
    ELSE IF input.hook_event_name = "SessionStart" THEN "handle_init"
    ELSE IF input.hook_event_name = "UserPromptSubmit"
    THEN "handle_prompt_submit"
    ELSE IF input.hook_event_name = "PreToolUse"
    THEN IF input.tool_name \in {"Read", "Grep"} THEN "handle_read_file"
         ELSE "handle_shell_execution"
    ELSE Absent

\* The handler route_claude_code_hook runs for an input, if it runs one.
\* The router hands its audit_logger to the handler and uses it nowhere
\* else, and it calls the policy service nowhere: an input for which no
\* handler runs is neither inspected nor audited.
routed_handler(input) ==
    IF ~input.json_valid \/ input.hook_event_name = Absent
       \/ ~input.session_id \/ ~input.cwd
    THEN Absent
    ELSE IF input.hook_event_name = "SessionStart" THEN "handle_init"
    ELSE IF input.hook_event_name = "UserPromptSubmit"
    THEN "handle_prompt_submit"
    ELSE IF input.hook_event_name = "PreToolUse"
    THEN IF input.tool_name \in {"Read", "Grep"} THEN "handle_read_file"
         ELSE IF input.tool_name = "Bash" THEN "handle_shell_execution"
         ELSE Absent
    ELSE Absent

\* A Claude Code hook process is started, routes its input and exits.
RouteClaudeCodeHook ==
    /\ call = NoCall
    /\ \E input \in HookInputs :
           LET ended == route_claude_code_hook(input)
           IN  call' = [function |-> "route_claude_code_hook",
                        input |-> input,
                        handler |-> routed_handler(input),
                        stdout |-> ended.stdout,
                        exit_code |-> ended.exit_code]
    /\ UNCHANGED <<pipeline, listing>>

\* What a file holds, for the scan: no sensitive data, or some.
Texts == {"plain text", "text with a secret"}

\* The file on disk: it cannot be read, or it holds a text.
DiskFiles == {"unreadable"} \cup Texts

\* read_file_content: the file at file_path is read; the content given in
\* the hook input is used only if the file cannot be read.
read_file_content(on_disk, fallback_content) ==
    IF on_disk = "unreadable" THEN fallback_content ELSE on_disk

\* process_files_for_redaction: the files in which the scan found sensitive
\* data, and whether there is any.
process_files_for_redaction(main_content) ==
    LET files == IF main_content = "text with a secret"
                 THEN <<[scanned |-> main_content, redacted |-> TRUE]>>
                 ELSE <<>>
    IN  [files_with_redactions |-> files,
         has_any_redactions |-> files # <<>>]

\* handle_read_file with what it reads: the content it scans, what it sends
\* to the policy service, and the permission it prints.  The length of the
\* content (more than max_content_length or not) is read nowhere.
ReadFile(valid, on_disk, provided_content, long, enforcement) ==
    LET file_content == read_file_content(on_disk, provided_content)
        scan == process_files_for_redaction(file_content)
    IN  [scanned |-> IF valid THEN <<file_content>> ELSE <<>>,
         inspected |-> IF valid /\ scan.has_any_redactions
                       THEN scan.files_with_redactions ELSE <<>>,
         output |-> handle_read_file(valid, scan.has_any_redactions,
                                     enforcement, TRUE, TRUE)]

\* A read-file hook process is started, handles its input and exits.
ReadFileHook ==
    /\ call = NoCall
    /\ \E valid \in BOOLEAN, on_disk \in DiskFiles, provided \in Texts,
          long \in BOOLEAN, enforcement \in HookEnforcements :
           LET read == ReadFile(valid, on_disk, provided, long, enforcement)
           IN  call' = [function |-> "read_file_hook",
                        valid |-> valid,
                        on_disk |-> on_disk,
                        content |-> provided,
                        long |-> long,
                        enforcement |-> enforcement,
                        scanned |-> read.scanned,
                        inspected |-> read.inspected,
                        output |-> read.output]
    /\ UNCHANGED <<pipeline, listing>>

NextHooks ==
    \/ RouteClaudeCodeHook
    \/ ReadFileHook

SpecHooks == Init /\ [][NextHooks]_vars

\* ---------------------------------------------------------------------
\* The dialogs of one proxy process.  The handlers are coroutines of one
\* event loop, and the dialog is a plain call (no await): while a dialog is
\* open the thread of the loop is inside that call and no coroutine runs.
\* The answer of the policy service arrives whatever the loop does; the
\* coroutine that waits for it goes on when the loop runs it.

\* The answer has arrived and _enforce_decision is about to run.
EnforcePoints == {"enforce_request", "enforce_response"}

\* The thread is inside the dialog call of the operation.
DialogPoints == {"dialog_request", "dialog_response"}

\* The verdicts that send an operation through and those that escalate.
DialogVerdicts == {v \in PipelineVerdicts : v.decision \in {"allow", "block"}}

\* The answers of the policy service: here its calls are taken to work.
DialogReplies == {[raised |-> FALSE, verdict |-> v] : v \in DialogVerdicts}

\* A loop whose dialog call is awaited: only the asking coroutine waits.
EventLoopFree_awaiting_dialog(o) == pc[o] \notin DialogPoints

\* The loop can run the coroutine of o: its thread is in no dialog call.
EventLoopFree(o) == \A other \in Ops : pc[other] \notin DialogPoints

\* _enforce_decision opens a dialog for this verdict.
OpensDialog(verdict, is_request) ==
    _enforce_decision(verdict, is_request, "BLOCK").dialog # <<>>

\* The phase operation o is in.
InRequestPhase(o) ==
    pc[o] \in {"inspect_request", "enforce_request", "dialog_request"}

\* _enforce_decision goes on from the dialog (or without one) to its
\* recording, its return or its raise.
Enforcing(o, is_request, choice) ==
    LET enforced == _enforce_decision(decision[o], is_request, choice)
    IN  /\ ChoicePossible(enforced, choice)
        /\ dialogs' = [dialogs EXCEPT ![o] = @ \o enforced.dialog]
        /\ confirmations' = [confirmations EXCEPT
                       ![o] = @ \o RecordCalls(enforced.record, event_id[o])]
        /\ IF enforced.record # <<>>
           THEN /\ Run(o, event_id[o], <<>>,
                       Stretch(<<>>, <<"record_user_confirmation">>,
                               IF is_request THEN "record_request"
                               ELSE "record_response"),
                       raised_error[o], PipelineAuditWrites)
                /\ pending' = [pending EXCEPT ![o] =
                                  [outcome |-> enforced.outcome,
                                   error |-> enforced.error]]
           ELSE /\ Run(o, event_id[o],
                       EnforcementEnd(is_request, enforced.outcome),
                       AfterEnforcement(is_request, enforced.outcome),
                       enforced.error, PipelineAuditWrites)
                /\ UNCHANGED pending

\* The loop runs the handler of a new operation.
LoopHandleOperation(o) ==
    /\ EventLoopFree(o)
    /\ HandleOperation(o, PipelineAuditWrites)

\* The policy service answers: the verdict is there for the coroutine of o.
PolicyReplies(o) ==
    /\ pc[o] \in {"inspect_request", "inspect_response"}
    /\ \E reply \in DialogReplies :
           /\ decision' = [decision EXCEPT ![o] = InspectionVerdict(reply)]
           /\ trace' = [trace EXCEPT ![o] =
                           @ \o InspectionSteps(InRequestPhase(o), reply)]
    /\ pc' = [pc EXCEPT ![o] = IF InRequestPhase(o) THEN "enforce_request"
                               ELSE "enforce_response"]
    /\ UNCHANGED <<event_id, last_event_id, audit_log, dialogs, confirmations,
                   pending, raised_error, config>>
    /\ UNCHANGED <<call, listing>>

\* The loop runs the coroutine of o: _enforce_decision opens its dialog, or
\* needs none.
Enforce(o) ==
    /\ pc[o] \in EnforcePoints
    /\ EventLoopFree(o)
    /\ IF OpensDialog(decision[o], InRequestPhase(o))
       THEN /\ pc' = [pc EXCEPT ![o] = IF InRequestPhase(o)
                                       THEN "dialog_request"
                                       ELSE "dialog_response"]
            /\ trace' = [trace EXCEPT ![o] = Append(@, "dialog_opened")]
            /\ UNCHANGED <<audit_log, dialogs, confirmations, pending,
                           raised_error>>
       ELSE Enforcing(o, InRequestPhase(o), "BLOCK")
    /\ UNCHANGED <<event_id, last_event_id, decision, config>>
    /\ UNCHANGED <<call, listing>>

\* The user answers the open dialog, or it times out.
DialogReturn(o) ==
    /\ pc[o] \in DialogPoints
    /\ \E choice \in PipelineChoices :
           Enforcing(o, InRequestPhase(o), choice)
    /\ UNCHANGED <<event_id, last_event_id, decision, config>>
    /\ UNCHANGED <<call, listing>>

\* The loop runs the coroutine of o after its recording.
LoopRecordReturn(o) ==
    /\ EventLoopFree(o)
    /\ \/ RecordRequestReturn(o, PipelineRecordFailures, PipelineAuditWrites)
       \/ RecordResponseReturn(o, PipelineRecordFailures, PipelineAuditWrites)

\* The loop runs the coroutine of o after the wrapped server answered.
LoopCallNextReturn(o) ==
    /\ EventLoopFree(o)
    /\ \/ CallNextReturn(o, PipelineAuditWrites)
       \/ CallNextRaise(o)

\* The loop cancels the task of o where it waits.
LoopCancel(o) ==
    /\ EventLoopFree(o)
    /\ pc[o] \in AwaitPoints \cup EnforcePoints
    /\ pc' = [pc EXCEPT ![o] = "cancelled"]
    /\ trace' = [trace EXCEPT ![o] = Append(@, "cancelled")]
    /\ UNCHANGED <<event_id, last_event_id, audit_log, decision, dialogs,
                   confirmations, pending, raised_error, config>>
    /\ UNCHANGED <<call, listing>>

NextDialogs ==
    \E o \in Ops :
        \/ LoopHandleOperation(o)
        \/ PolicyReplies(o)
        \/ Enforce(o)
        \/ DialogReturn(o)
        \/ LoopRecordReturn(o)
        \/ LoopCallNextReturn(o)
        \/ LoopCancel(o)

SpecDialogs == Init /\ [][NextDialogs]_vars

\* The loop runs a coroutine that is ready, and a dialog that is open ends:
\* the user answers or its timeout of 60 seconds passes.
SpecDialogsFair ==
    /\ SpecDialogs
    /\ \A o \in Ops : WF_vars(Enforce(o)) /\ WF_vars(DialogReturn(o))

----------------------------------------------------------------------------
(* Properties of the operation pipeline.                                   *)

Range(s) == {s[i] : i \in 1..Len(s)}

Count(s, x) == Cardinality({i \in 1..Len(s) : s[i] = x})

IsPrefix(s, t) == Len(s) <= Len(t) /\ \A i \in 1..Len(s) : s[i] = t[i]

\* In s, every y comes after an x that comes after a w.
Follows(s, w, x, y) ==
    \A i \in 1..Len(s) :
        s[i] = y =>
            \E j \in 1..(i - 1) :
                /\ s[j] = x
                /\ \E k \in 1..(j - 1) : s[k] = w

\* The audit events emitted for operation o.
AuditTrail(o) == IF event_id[o] = 0 THEN <<>> ELSE audit_log[event_id[o]]

\* C1: the wrapped server (call_next) is invoked only after the request
\* inspection has returned a verdict and the request enforcement has
\* returned without raising; once request enforcement has raised, call_next
\* is never invoked for that operation.
C1_CallNextOnlyAfterRequestEnforced ==
    \A o \in Ops :
        /\ Follows(trace[o], "request_verdict", "request_enforced", "call_next")
        /\ "request_denied" \in Range(trace[o])
              => "call_next" \notin Range(trace[o])

\* An operation whose request was blocked, sent on by the user in the dialog
\* and forwarded to the wrapped server.
C1_Witness ==
    \E o \in Ops :
        /\ "call_next" \in Range(trace[o])
        /\ dialogs[o] # <<>>
        /\ dialogs[o][1].is_request
        /\ dialogs[o][1].choice = "ALLOW"

\* C2: the client receives the result only after the response inspection has
\* returned a verdict and the response enforcement has returned without
\* raising; once response enforcement has raised, the result is never
\* returned: the operation ends with an error.
C2_ResultOnlyAfterResponseEnforced ==
    \A o \in Ops :
        /\ Follows(trace[o], "response_verdict", "response_enforced",
                   "return_result")
        /\ pc[o] = "returned" <=> "return_result" \in Range(trace[o])
        /\ "response_denied" \in Range(trace[o])
              => /\ "return_result" \notin Range(trace[o])
                 /\ pc[o] = "raised"
                 /\ raised_error[o] # None

\* An operation whose response was refused by the user: the wrapped server
\* had answered, and the client gets an error.
C2_Witness ==
    \E o \in Ops :
        /\ "call_next_returned" \in Range(trace[o])
        /\ "response_denied" \in Range(trace[o])
        /\ pc[o] = "raised"

\* C3: for every event_id, under any interleaving of the operations in
\* flight, the audit events emitted with that id are, in emission order, a
\* prefix of agent_request, agent_request_forwarded, mcp_response,
\* mcp_response_forwarded.
C3_AuditTrailIsPrefix ==
    \A e \in EventIds : IsPrefix(audit_log[e], AuditOrder)

\* Two operations in flight at once, one with its four events emitted and
\* the other part of the way.
C3_Witness ==
    \E o1, o2 \in Ops :
        /\ o1 # o2
        /\ AuditTrail(o1) = AuditOrder
        /\ Len(AuditTrail(o2)) = 2
        /\ pc[o2] = "call_next"

\* C4: whenever the audit trail of an operation holds
\* agent_request_forwarded, call_next was invoked for that operation; this
\* holds at every moment, so also once the operation has returned, raised or
\* been cancelled.
C4_ForwardedImpliesCalled ==
    \A o \in Ops :
        "agent_request_forwarded" \in Range(AuditTrail(o))
            => "call_next" \in Range(trace[o])

\* An operation cancelled while it waited for the wrapped server.
C4_Witness ==
    \E o \in Ops :
        /\ pc[o] = "cancelled"
        /\ "agent_request_forwarded" \in Range(AuditTrail(o))
        /\ "call_next_returned" \notin Range(trace[o])

\* C5: for every operation that has finished, exactly one agent_request and
\* at most one agent_request_forwarded were emitted, mcp_response was emitted
\* if and only if the wrapped server returned, and mcp_response_forwarded if
\* and only if the response enforcement returned without raising.
C5_AuditCounts ==
    \A o \in Ops :
        pc[o] \in Finished =>
            /\ Count(AuditTrail(o), "agent_request") = 1
            /\ Count(AuditTrail(o), "agent_request_forwarded") <= 1
            /\ "mcp_response" \in Range(AuditTrail(o))
                  <=> "call_next_returned" \in Range(trace[o])
            /\ "mcp_response_forwarded" \in Range(AuditTrail(o))
                  <=> "response_enforced" \in Range(trace[o])

\* An operation that ended with an error after the wrapped server had
\* answered: mcp_response is in its trail, mcp_response_forwarded is not.
C5_Witness ==
    \E o \in Ops :
        /\ pc[o] = "raised"
        /\ AuditTrail(o) =
               <<"agent_request", "agent_request_forwarded", "mcp_response">>


----------------------------------------------------------------------------
(* Properties of the enforcement of a verdict.                             *)

\* Operation o has a verdict, and _enforce_decision has run on it.
Acted(o) == decision[o] # NoVerdict

\* The verdict of o is the one of its request (else of its response).
CurrentIsRequest(o) == "response_verdict" \notin Range(trace[o])

\* The dialogs shown, and the confirmations recorded, for the verdict of o.
PhaseDialogs(o) ==
    LET OfPhase(d) == d.is_request = CurrentIsRequest(o)
    IN  SelectSeq(dialogs[o], OfPhase)

PhaseConfirmations(o) ==
    LET OfPhase(c) == c.direction = Direction(CurrentIsRequest(o))
    IN  SelectSeq(confirmations[o], OfPhase)

\* How the enforcement of the verdict of o ends: "return" or "raise".
Outcome(o) ==
    IF pending[o] # NoPending THEN pending[o].outcome
    ELSE IF (IF CurrentIsRequest(o) THEN "request_enforced"
             ELSE "response_enforced") \in Range(trace[o])
    THEN "return"
    ELSE "raise"

\* The operation went past the enforcement of its verdict.
Proceeded(o) ==
    (IF CurrentIsRequest(o) THEN "call_next" ELSE "return_result")
        \in Range(trace[o])

\* The inspection that gave the verdict of o had failed.
InspectionFailed(o) ==
    (IF CurrentIsRequest(o) THEN "inspect_policy_request_failed"
     ELSE "inspect_policy_response_failed") \in Range(trace[o])

\* The verdict of o is a block, its severity is at or above the threshold.
BlockVerdict(o) == Acted(o) /\ decision[o].decision = "block"

SurvivesFilter(o) ==
    SeverityRank(decision[o].severity) >= SeverityRank(MIN_BLOCK_SEVERITY)

\* The verdict of o was auto-allowed: no dialog, ALLOW recorded once,
\* enforcement returns.
AutoAllowed(o) ==
    /\ PhaseDialogs(o) = <<>>
    /\ Len(PhaseConfirmations(o)) = 1
    /\ PhaseConfirmations(o)[1].user_decision = "ALLOW"
    /\ Outcome(o) = "return"

\* The verdict of o was enforced through the blocking dialog: it was shown
\* once, and enforcement returns exactly when the user chose ALLOW in it.
BlockingDialogDecides(o) ==
    /\ Len(PhaseDialogs(o)) = 1
    /\ PhaseDialogs(o)[1].kind = "blocking"
    /\ Outcome(o) = "return" <=> PhaseDialogs(o)[1].choice = "ALLOW"
    /\ PhaseDialogs(o)[1].choice \in {"BLOCK", "timeout"}
          => Outcome(o) = "raise"
    /\ Proceeded(o) => PhaseDialogs(o)[1].choice = "ALLOW"

C7_AutoAllowBelowThreshold ==
    \A o \in Ops :
        BlockVerdict(o) => (AutoAllowed(o) <=> ~SurvivesFilter(o))

C9_NoOverrideBlocksSilently ==
    \A o \in Ops :
        BlockVerdict(o) /\ SurvivesFilter(o) /\ ~ALLOW_BLOCK_OVERRIDE =>
            /\ PhaseDialogs(o) = <<>>
            /\ Len(PhaseConfirmations(o)) = 1
            /\ PhaseConfirmations(o)[1].user_decision = "BLOCK"
            /\ Outcome(o) = "raise"

\* C10: a block verdict that survives the severity filter while
\* ALLOW_BLOCK_OVERRIDE is true shows the blocking dialog; the operation
\* goes on if and only if the dialog returns ALLOW, and a BLOCK or a timeout
\* makes the enforcement fail.
C10_OverrideAsksTheUser ==
    \A o \in Ops :
        BlockVerdict(o) /\ SurvivesFilter(o) /\ ALLOW_BLOCK_OVERRIDE =>
            BlockingDialogDecides(o)

\* A block of severity high at threshold high with the override on: the user
\* chose ALLOW on the response and the result was returned.
C10_Witness ==
    \E o \in Ops :
        /\ BlockVerdict(o)
        /\ decision[o].severity = "high"
        /\ MIN_BLOCK_SEVERITY = "high"
        /\ ALLOW_BLOCK_OVERRIDE
        /\ ~CurrentIsRequest(o)
        /\ PhaseDialogs(o) # <<>>
        /\ PhaseDialogs(o)[1].choice = "ALLOW"
        /\ pc[o] = "returned"

\* The verdict of o has the given decision.
VerdictIs(o, decision_type) ==
    Acted(o) /\ decision[o].decision = decision_type

\* C11: for a required_explicit_user_confirmation verdict a confirmation
\* dialog is always shown, whatever the severity, MIN_BLOCK_SEVERITY and
\* ALLOW_BLOCK_OVERRIDE; the operation goes on if and only if the dialog
\* returns ALLOW or ALLOW_ALWAYS, and fails on BLOCK or on a timeout.
C11_ConfirmationAlwaysAsked ==
    \A o \in Ops :
        VerdictIs(o, "required_explicit_user_confirmation") =>
            /\ Len(PhaseDialogs(o)) = 1
            /\ PhaseDialogs(o)[1].kind = "confirmation"
            /\ Outcome(o) = "return"
                  <=> PhaseDialogs(o)[1].choice \in {"ALLOW", "ALLOW_ALWAYS"}
            /\ PhaseDialogs(o)[1].choice \in {"BLOCK", "timeout"}
                  => Outcome(o) = "raise"
            /\ Proceeded(o)
                  => PhaseDialogs(o)[1].choice \in {"ALLOW", "ALLOW_ALWAYS"}

\* A confirmation verdict of severity low under threshold critical with the
\* override off: the dialog was shown, the user chose Always Allow and the
\* request was forwarded.
C11_Witness ==
    \E o \in Ops :
        /\ VerdictIs(o, "required_explicit_user_confirmation")
        /\ decision[o].severity = "low"
        /\ MIN_BLOCK_SEVERITY = "critical"
        /\ ~ALLOW_BLOCK_OVERRIDE
        /\ CurrentIsRequest(o)
        /\ PhaseDialogs(o) # <<>>
        /\ PhaseDialogs(o)[1].choice = "ALLOW_ALWAYS"
        /\ "call_next" \in Range(trace[o])

\* C12: every confirmation dialog is requested with show_always_allow true
\* if and only if the call_type of the verdict is not null, and with
\* show_always_block false.
C12_DialogOptions ==
    \A o \in Ops :
        Acted(o) =>
            \A i \in 1..Len(PhaseDialogs(o)) :
                PhaseDialogs(o)[i].kind = "confirmation" =>
                    /\ PhaseDialogs(o)[i].show_always_allow
                          <=> decision[o].call_type # None
                    /\ ~PhaseDialogs(o)[i].show_always_block

\* A confirmation dialog for a verdict without call_type: two buttons, and
\* the user chose ALLOW on the response.
C12_Witness ==
    \E o \in Ops :
        /\ VerdictIs(o, "required_explicit_user_confirmation")
        /\ decision[o].call_type = None
        /\ ~CurrentIsRequest(o)
        /\ PhaseDialogs(o) # <<>>
        /\ ~PhaseDialogs(o)[1].show_always_allow
        /\ PhaseDialogs(o)[1].choice = "ALLOW"

\* C13: for a need_more_info verdict, enforcement shows no dialog, makes no
\* record_user_confirmation call and raises; in the request phase the
\* wrapped server is not called.
C13_NeedMoreInfoRaises ==
    \A o \in Ops :
        VerdictIs(o, "need_more_info") =>
            /\ PhaseDialogs(o) = <<>>
            /\ PhaseConfirmations(o) = <<>>
            /\ Outcome(o) = "raise"
            /\ pc[o] = "raised"
            /\ raised_error[o] = NeedMoreInfo(CurrentIsRequest(o))
            /\ CurrentIsRequest(o) => "call_next" \notin Range(trace[o])

\* A request answered with need_more_info: the operation ended with the
\* error before the wrapped server was called.
C13_Witness ==
    \E o \in Ops :
        /\ VerdictIs(o, "need_more_info")
        /\ CurrentIsRequest(o)
        /\ pc[o] = "raised"
        /\ AuditTrail(o) = <<"agent_request">>

\* C15: for an allow verdict, enforcement returns without raising, shows no
\* dialog and makes no record_user_confirmation call, for every severity,
\* MIN_BLOCK_SEVERITY and ALLOW_BLOCK_OVERRIDE.
C15_AllowIsSilent ==
    \A o \in Ops :
        VerdictIs(o, "allow") =>
            /\ PhaseDialogs(o) = <<>>
            /\ PhaseConfirmations(o) = <<>>
            /\ Outcome(o) = "return"
            /\ pending[o] = NoPending

\* An allow verdict of severity critical with the override off: the request
\* was forwarded with no dialog and no record.
C15_Witness ==
    \E o \in Ops :
        /\ VerdictIs(o, "allow")
        /\ decision[o].severity = "critical"
        /\ ~ALLOW_BLOCK_OVERRIDE
        /\ CurrentIsRequest(o)
        /\ dialogs[o] = <<>>
        /\ confirmations[o] = <<>>
        /\ "call_next" \in Range(trace[o])

\* The user approved in the dialog shown for the verdict of o.
Approved(o) ==
    /\ PhaseDialogs(o) # <<>>
    /\ PhaseDialogs(o)[1].choice \in {"ALLOW", "ALLOW_ALWAYS"}

\* The recording of the confirmation for the verdict of o failed.
RecordFailed(o) ==
    (IF CurrentIsRequest(o) THEN "record_request_failed"
     ELSE "record_response_failed") \in Range(trace[o])

\* C19: a failure of record_user_confirmation never changes the outcome of
\* enforcement: once the recording has ended, failed or not, enforcement
\* returns if the user approved in the dialog and raises the user's block
\* otherwise.
C19_RecordFailureChangesNothing ==
    \A o \in Ops :
        Acted(o) /\ PhaseDialogs(o) # <<>> /\ pending[o] = NoPending =>
            /\ Outcome(o) = IF Approved(o) THEN "return" ELSE "raise"
            /\ Outcome(o) = "raise" =>
                   /\ pc[o] = "raised"
                   /\ raised_error[o] = UserBlocked
            /\ Proceeded(o) => Approved(o)

\* The recording failed twice: for the request, which the user had allowed
\* and which was forwarded, and for the response, which the user had blocked
\* and which ended with the user's block.
C19_Witness ==
    \E o \in Ops :
        /\ "record_request_failed" \in Range(trace[o])
        /\ "call_next" \in Range(trace[o])
        /\ "record_response_failed" \in Range(trace[o])
        /\ pc[o] = "raised"
        /\ raised_error[o] = UserBlocked

----------------------------------------------------------------------------
(* Properties of the functions taken on their own.                         *)

\* The text piece is part of the message.
Contains(message, piece) ==
    \E i \in 1..Len(message) : piece \in Range(message[i])

\* The wrapper name of each dotted path of the fixed mapping.
WrapperNames ==
    {<<"context.agent.intent", "__wrapper_modelIntent">>,
     <<"context.agent.plan", "__wrapper_modelPlan">>,
     <<"context.agent.expectedOutputs", "__wrapper_modelExpectedOutputs">>,
     <<"context.agent.user_prompt", "__wrapper_userPrompt">>,
     <<"context.agent.user_prompt_id", "__wrapper_userPromptId">>,
     <<"context.agent.context_summary", "__wrapper_contextSummary">>,
     <<"context.workspace.current_files", "__wrapper_currentFiles">>}

\* C14: the message raised for a need_more_info verdict contains the stage
\* name (CLIENT REQUEST when is_request is true, TOOL RESPONSE otherwise),
\* the __wrapper_ name of every entry of need_fields that the fixed mapping
\* translates, and the phrase MANDATORY ACTIONS:.
C14_NeedMoreInfoMessage ==
    call.function = "need_more_info" =>
        /\ Contains(call.message,
                    IF call.is_request THEN "CLIENT REQUEST"
                    ELSE "TOOL RESPONSE")
        /\ ~Contains(call.message,
                     IF call.is_request THEN "TOOL RESPONSE"
                     ELSE "CLIENT REQUEST")
        /\ \A i \in 1..Len(call.need_fields) :
               \A name \in WrapperNames :
                   call.need_fields[i] = name[1]
                       => Contains(call.message, name[2])
        /\ Contains(call.message, "MANDATORY ACTIONS:")

\* The message for a response whose verdict names the prompt id and the plan.
C14_Witness ==
    /\ call.function = "need_more_info"
    /\ ~call.is_request
    /\ call.need_fields
          = <<"context.agent.user_prompt_id", "context.agent.plan">>
    /\ Contains(call.message, "__wrapper_userPromptId")
    /\ Contains(call.message, "__wrapper_modelPlan")

\* C16: the arguments forwarded to the wrapped server contain no key that
\* begins with __wrapper_, and contain every other key of the original call
\* with its value unchanged.
C16_WrapperArgumentsStripped ==
    call.function = "_split_context_arguments" =>
        LET original == call.message.arguments
            forwarded == call.forwarded.arguments
        IN  /\ \A k \in DOMAIN forwarded : k[1] # "__wrapper_"
            /\ \A k \in DOMAIN original :
                   k[1] # "__wrapper_"
                       => k \in DOMAIN forwarded /\ forwarded[k] = original[k]
            /\ \A k \in DOMAIN forwarded :
                   k \in DOMAIN original /\ forwarded[k] = original[k]

\* A call with a wrapper argument, a tool argument and an argument whose
\* name only resembles the prefix: the last two are forwarded.
C16_Witness ==
    /\ call.function = "_split_context_arguments"
    /\ DOMAIN call.message.arguments
          = {<<"__wrapper_", "userPrompt">>, <<"path">>, <<"__wrapper", "path">>}
    /\ DOMAIN call.forwarded.arguments = {<<"path">>, <<"__wrapper", "path">>}
    /\ DOMAIN call.wrapper_args = {<<"__wrapper_", "userPrompt">>}

----------------------------------------------------------------------------
(* Properties of the tools/list handling.                                  *)

\* The calls of client.init_tools made for the request t.
CallsBy(t) == Count(init_tools_calls, t)

\* The request t started _call_init_api.
Started(t) == tools_list[t].init # "none"

\* t1 was handled before t2, and less than 60 seconds before.
Within60(t1, t2) ==
    /\ t1 \in HandledLists
    /\ t2 \in HandledLists
    /\ tools_list[t1].order < tools_list[t2].order
    /\ tools_list[t2].handled_at - tools_list[t1].handled_at < 60

\* C17, as stated: for any two tools/list requests handled within 60 seconds
\* of each other, init_tools is called exactly once, by the first of them.
C17_InitOnceByTheFirst ==
    \A t1, t2 \in Lists :
        /\ Within60(t1, t2)
        /\ tools_list[t1].pc = "returned"
        /\ tools_list[t2].pc = "returned"
        => CallsBy(t1) = 1 /\ CallsBy(t2) = 0

\* C17, amended: for any two tools/list requests handled within 60 seconds
\* of each other, init_tools is called at most once and the init is started
\* by at most one of them; a request starts the init exactly when its tool
\* list is not empty and no request started one less than 60 seconds before
\* it; and a started init has called init_tools once when the request has
\* returned, unless reading the app uid failed.
C17_InitAtMostOnce ==
    /\ \A t1, t2 \in Lists :
           Within60(t1, t2) =>
               /\ CallsBy(t1) + CallsBy(t2) <= 1
               /\ ~(Started(t1) /\ Started(t2))
    /\ \A t \in HandledLists :
           /\ Started(t) <=>
                  /\ tools_list[t].has_tools
                  /\ \A t0 \in HandledLists :
                         tools_list[t0].order < tools_list[t].order
                         /\ Started(t0)
                         => tools_list[t].handled_at
                                - tools_list[t0].handled_at >= 60
           /\ CallsBy(t) <= 1
           /\ CallsBy(t) = 1 => Started(t)
           /\ Started(t) /\ tools_list[t].pc = "returned"
              /\ tools_list[t].init # "uid_failed"
                  => CallsBy(t) = 1

\* Two requests with tools 30 seconds apart: the first called init_tools,
\* the second returned its list without starting the init.
C17_Witness ==
    \E t1, t2 \in Lists :
        /\ Within60(t1, t2)
        /\ tools_list[t2].handled_at - tools_list[t1].handled_at = 30
        /\ CallsBy(t1) = 1
        /\ tools_list[t2].has_tools
        /\ ~Started(t2)
        /\ tools_list[t2].pc = "returned"

\* C18: a failure of the init never fails tools/list: the list with the
\* augmented schemas is still returned, and the failed init is not tried
\* again by a later tools/list inside the same 60 seconds.
C18_InitFailureIsSoft ==
    \A t \in Lists :
        tools_list[t].init \in {"failed", "uid_failed"} =>
            /\ tools_list[t].pc = "returned"
            /\ tools_list[t].result = "enhanced"
            /\ _last_tools_init_time # <<>>
            /\ _last_tools_init_time[1] >= tools_list[t].handled_at
            /\ \A t2 \in Lists : Within60(t, t2) => ~Started(t2)

\* init_tools failed for a request; a second request with tools, handled 30
\* seconds later, returned its list without starting the init.
C18_Witness ==
    \E t1, t2 \in Lists :
        /\ tools_list[t1].init = "failed"
        /\ tools_list[t1].result = "enhanced"
        /\ Within60(t1, t2)
        /\ tools_list[t2].has_tools
        /\ tools_list[t2].pc = "returned"
        /\ ~Started(t2)

\* What the IDE is told by the last hook call if both audit writes work.
HookOutputWhenWritten ==
    IF call.function = "handle_mcp_execution"
    THEN handle_mcp_execution(call.valid, call.content, call.enforcement,
                              TRUE, TRUE)
    ELSE handle_read_file(call.valid, call.content, call.enforcement,
                          TRUE, TRUE)

\* The ways an operation of the wrapper ends with an error.
PipelineErrors ==
    {UserBlocked, NeedMoreInfo(TRUE), NeedMoreInfo(FALSE),
     "wrapped server error"}

ServerHandlers == {"secure_sampling_handler", "secure_elicitation_handler"}

\* C21: every sampling request, elicitation request and log notification of
\* the wrapped server goes through the pipeline before it is sent on to the
\* client: the agent_request event is emitted, the request is inspected and
\* enforcement returns, and only then the default handler is called.
C21_ServerMessagesInspected ==
    /\ \A o \in Ops :
           (trace[o] # <<>> /\ trace[o][1] \in ServerHandlers) =>
               /\ Follows(trace[o], "agent_request", "request_verdict",
                          "request_enforced")
               /\ Follows(trace[o], "request_verdict", "request_enforced",
                          "call_next")
    /\ call.function = "secure_log_handler" =>
           /\ call.audit # <<>>
           /\ Follows(call.steps, "request_verdict", "request_enforced",
                      "default_log_handler")

\* Operation o waits for the policy service: SecurityPolicyClient was made
\* with app_id = self.app_id just before the call.
PolicyCallInFlight(o) ==
    pc[o] \in {"inspect_request", "record_request",
               "inspect_response", "record_response"}

\* C22: in any sequence of messages, each policy-service call of an
\* inspected operation (and each audit event) carries the app_uid of the
\* workspace, never an empty one: while a call is in flight the app_id of
\* the middleware, which only ever goes from empty to the uid, is not empty.
C22_AppUidCarried ==
    \A o \in Ops : PolicyCallInFlight(o) => app_id # ""

\* The dialogs shown for operation o in one phase.
DialogsOfPhase(o, is_request) ==
    LET OfPhase(d) == d.is_request = is_request
    IN  SelectSeq(dialogs[o], OfPhase)

\* C23 as stated: over the whole operation, request phase and response
\* phase together, at most one dialog is shown.
C23_OneDialogPerOperation ==
    \A o \in Ops : Len(dialogs[o]) <= 1

\* C23 as it holds: each enforcement shows at most one dialog, so an
\* operation shows at most one for its request and at most one for its
\* response, the second only after the first let the request through.
C23_OneDialogPerPhase ==
    \A o \in Ops :
        /\ Len(DialogsOfPhase(o, TRUE)) <= 1
        /\ Len(DialogsOfPhase(o, FALSE)) <= 1
        /\ Len(dialogs[o]) = 2 =>
               /\ dialogs[o][1].is_request
               /\ dialogs[o][1].choice \in {"ALLOW", "ALLOW_ALWAYS"}
               /\ ~dialogs[o][2].is_request

\* An operation whose request was blocked and let through by the user, and
\* whose response then needed a confirmation: two dialogs for one event id.
C23_Witness ==
    \E o \in Ops :
        /\ Len(dialogs[o]) = 2
        /\ dialogs[o][1].kind = "blocking"
        /\ dialogs[o][2].kind = "confirmation"
        /\ pc[o] = "returned"

\* The operations whose dialog is open.
OpenDialogs == {o \in Ops : pc[o] \in DialogPoints}

\* The verdict of o has arrived and asks for a dialog that is not open yet.
Escalated(o) ==
    /\ pc[o] \in EnforcePoints
    /\ OpensDialog(decision[o], InRequestPhase(o))

\* C24: at most one dialog is open at any time in a proxy process; the
\* operations that escalate while one is open wait, and each of them gets
\* its dialog in the end (unless its request is cancelled first).
C24_DialogsOneAtATime ==
    /\ [](Cardinality(OpenDialogs) <= 1)
    /\ \A o \in Ops :
           Escalated(o) ~> (pc[o] \in DialogPoints \/ pc[o] = "cancelled")

\* Two operations have escalated: the dialog of one is open, the other one
\* waits with its verdict.
C24_Witness ==
    \E o1, o2 \in Ops :
        /\ o1 # o2
        /\ pc[o1] \in DialogPoints
        /\ Escalated(o2)

\* The file holds a valid UUID.
HoldsUuid(file) == file # NoFile /\ is_valid_uuid(strip(file))

\* C25: over any sequence of read_app_uid calls for a workspace, the file is
\* written only when it is absent or does not hold a valid UUID; once it
\* holds one, no call changes it and every later call that returns gives
\* the UUID it holds.
C25_AppUidStable ==
    call.function = "read_app_uid" =>
        \A i \in 1..Len(call.calls) :
            LET c == call.calls[i]
            IN  /\ c.wrote => ~HoldsUuid(c.before)
                /\ c.after # c.before => c.wrote
                /\ HoldsUuid(c.before) =>
                       /\ c.after = c.before
                       /\ ~c.raised => c.uid = strip(c.before)
                /\ ~c.raised => HoldsUuid(c.after) /\ c.uid = strip(c.after)
                /\ \A j \in 1..(i - 1) :
                       (HoldsUuid(call.calls[j].after) /\ ~c.raised) =>
                           c.uid = strip(call.calls[j].after)

\* The file held a UUID followed by a newline: two calls returned the UUID
\* and left the file alone; and a file with other text was replaced once,
\* by the first call, and returned by the next.
C25_Witness ==
    /\ call.function = "read_app_uid"
    /\ Len(call.calls) >= 2
    /\ ~call.calls[1].raised
    /\ ~call.calls[2].raised
    /\ \/ /\ call.calls[1].before = <<Uuid(1), Ws>>
          /\ call.calls[2].uid = <<Uuid(1)>>
          /\ call.file = <<Uuid(1), Ws>>
       \/ /\ call.calls[1].before = <<Junk>>
          /\ call.calls[1].wrote
          /\ ~call.calls[2].wrote
          /\ call.calls[2].uid = call.calls[1].uid

\* The router has run for the last hook call.
Routed == call.function = "route_claude_code_hook"

\* The router reaches a handler with this input.
ReachesHandler(input) ==
    /\ input.json_valid
    /\ input.session_id
    /\ input.cwd
    /\ \/ input.hook_event_name \in {"SessionStart", "UserPromptSubmit"}
       \/ /\ input.hook_event_name = "PreToolUse"
          /\ input.tool_name \in {"Read", "Grep", "Bash"}

\* The input is not valid: no JSON, a required field is missing, the event
\* is unknown, or the handler refuses its part of the input.
ValidationFailed(input) ==
    \/ ~input.json_valid
    \/ input.hook_event_name \in {Absent, "Stop"}
    \/ ~input.session_id
    \/ ~input.cwd
    \/ ReachesHandler(input) /\ input.handler = "error"

\* The handler ended with an exception.
InternalError(input) == ReachesHandler(input) /\ input.handler = "raise"

\* What is on stdout is one JSON object shaped like a deny.
DenyShaped(stdout) ==
    /\ Len(stdout) = 1
    /\ \/ stdout[1].permissionDecision = "deny"
       \/ stdout[1].decision = "block"

\* C26: every hook invocation that cannot determine a verdict (invalid JSON,
\* a missing required field, an unknown hook event, an internal error)
\* writes a JSON verdict shaped like a deny to stdout and exits with code 1.
C26_NoVerdictIsDenyAndExitOne ==
    (Routed /\ (ValidationFailed(call.input) \/ InternalError(call.input))) =>
        /\ DenyShaped(call.stdout)
        /\ call.exit_code = 1

ReadFileHandled == call.function = "read_file_hook"

\* C28: for a valid input the read-file hook always calls the policy
\* service with the redacted content, a file with no sensitive data
\* included, unless the content is longer than max_content_length: then it
\* allows without a call.
C28_ReadFileAlwaysInspects ==
    (ReadFileHandled /\ call.valid) =>
        IF call.long
        THEN call.inspected = <<>> /\ call.output.allowed
        ELSE call.inspected # <<>>

\* C29: the read-file hook scans and sends for inspection the content given
\* in the hook input, never what the file at file_path holds on disk.
C29_ProvidedContentInspected ==
    (ReadFileHandled /\ call.valid) =>
        /\ call.scanned = <<call.content>>
        /\ \A i \in 1..Len(call.inspected) :
               call.inspected[i].scanned = call.content

\* ---------------------------------------------------------------------
\* PII detection: the CREDIT_CARD and URL detectors of PIIDetector and
\* the resolution of overlaps.
\* A text is a sequence of one-character strings; a match carries the
\* indices of Python (start inclusive, end exclusive, from 0) and its
\* confidence in hundredths.
\* ---------------------------------------------------------------------

DigitChars == <<"0", "1", "2", "3", "4", "5", "6", "7", "8", "9">>

DigitSet == Range(DigitChars)

LetterSet == {"C", "a", "r", "d", "o", "k", "h", "t", "p", "c"}

\* \w of the regular expressions, over the characters of the texts drawn.
WordChars == DigitSet \cup LetterSet \cup {"_"}

IsWordChar(c) == c \in WordChars

\* \b at the gap before the character of index i (from 1).
WordBoundary(t, i) ==
    LET before == i > 1 /\ IsWordChar(t[i - 1])
        after == i <= Len(t) /\ IsWordChar(t[i])
    IN  before # after

\* Pieces of a pattern. A piece matches one character of chars; skip = 0
\* makes it required, skip = n > 0 lets the matching go on n pieces further
\* without it (an optional piece, or the head of an optional group of n
\* pieces); many lets it match again.
DigitsOf(n) ==
    [i \in 1..n |-> [chars |-> DigitSet, skip |-> 0, many |-> FALSE]]

OneOf(S) == <<[chars |-> S, skip |-> 0, many |-> FALSE]>>

OptionalSeparator == <<[chars |-> {"-", " "}, skip |-> 1, many |-> FALSE]>>

\* (?:[S])*
AnyOf(S) == <<[chars |-> S, skip |-> 1, many |-> TRUE]>>

\* The head c of an optional group of n pieces.
GroupOf(c, n) == <<[chars |-> {c}, skip |-> n, many |-> FALSE]>>

Grouped(first, n) ==
    first \o DigitsOf(n) \o OptionalSeparator \o DigitsOf(4)
          \o OptionalSeparator \o DigitsOf(4) \o OptionalSeparator
          \o DigitsOf(4)

\* The alternatives of the CREDIT_CARD expression in their order; an
\* alternative ending in (?:[0-9]{3})? is written as the longer one
\* followed by the shorter one, the order in which the greedy group is
\* tried.
CREDIT_CARD_PATTERN ==
    << Grouped(OneOf({"4"}), 3) \o DigitsOf(3),
       Grouped(OneOf({"4"}), 3),
       Grouped(OneOf({"5"}) \o OneOf({"1", "2", "3", "4", "5"}), 2),
       OneOf({"3"}) \o OneOf({"4", "7"}) \o DigitsOf(2) \o OptionalSeparator
           \o DigitsOf(6) \o OptionalSeparator \o DigitsOf(5),
       OneOf({"4"}) \o DigitsOf(15),
       OneOf({"4"}) \o DigitsOf(12),
       OneOf({"5"}) \o OneOf({"1", "2", "3", "4", "5"}) \o DigitsOf(14),
       OneOf({"3"}) \o OneOf({"4", "7"}) \o DigitsOf(13),
       OneOf({"3"}) \o DigitsOf(13),
       OneOf({"6"}) \o OneOf({"0"}) \o OneOf({"1"}) \o OneOf({"1"})
           \o DigitsOf(12),
       OneOf({"6"}) \o OneOf({"5"}) \o DigitsOf(2) \o DigitsOf(12) >>

\* https?://(?:[-\w.])+(?:\:[0-9]+)?(?:/(?:[\w/_.-])*)?
\*     (?:\?(?:[\w&=%.-])*)?(?:\#(?:[\w.-])*)?
URL_PATTERN ==
    << OneOf({"h"}) \o OneOf({"t"}) \o OneOf({"t"}) \o OneOf({"p"})
           \o <<[chars |-> {"s"}, skip |-> 1, many |-> FALSE]>>
           \o OneOf({":"}) \o OneOf({"/"}) \o OneOf({"/"})
           \o OneOf(WordChars \cup {"-", "."})
           \o AnyOf(WordChars \cup {"-", "."})
           \o GroupOf(":", 3) \o DigitsOf(1) \o AnyOf(DigitSet)
           \o GroupOf("/", 2) \o AnyOf(WordChars \cup {"/", "_", ".", "-"})
           \o GroupOf("?", 2) \o AnyOf(WordChars \cup {"&", "=", "%", ".", "-"})
           \o GroupOf("#", 2) \o AnyOf(WordChars \cup {".", "-"}) >>

\* The detectors modelled, in the order of self.patterns; bounded tells
\* whether the expression stands between two \b.
EntityTypes == <<"CREDIT_CARD", "URL">>

patterns ==
    [CREDIT_CARD |-> [alternatives |-> CREDIT_CARD_PATTERN, bounded |-> TRUE],
     URL |-> [alternatives |-> URL_PATTERN, bounded |-> FALSE]]

\* The indices after the last character of every way pattern p, from its
\* piece k on, matches t from index i on.
RECURSIVE MatchFrom(_, _, _, _)
MatchFrom(p, k, t, i) ==
    IF k > Len(p)
    THEN {i}
    ELSE (IF i <= Len(t) /\ t[i] \in p[k].chars
          THEN MatchFrom(p, IF p[k].many THEN k ELSE k + 1, t, i + 1)
          ELSE {})
         \cup (IF p[k].skip > 0 THEN MatchFrom(p, k + p[k].skip, t, i) ELSE {})

\* The ends at which alternative k of the expression of entity_type
\* matches at i (between two \b for a bounded expression).
BoundedEnds(entity_type, t, i, k) ==
    {e \in MatchFrom(patterns[entity_type].alternatives[k], 1, t, i) :
         patterns[entity_type].bounded
             => WordBoundary(t, i) /\ WordBoundary(t, e)}

\* The end of the match of the expression at i, 0 when there is none: the
\* first alternative that matches wins, with its greedy pieces taking all
\* they can. (A separator is no digit, so an alternative of CREDIT_CARD
\* matches at i in one way at most; in URL no piece can start with a
\* character the piece before it accepts, so the greedy match is the
\* longest one.)
MatchAt(entity_type, t, i) ==
    LET alternatives == patterns[entity_type].alternatives
        matching == {k \in 1..Len(alternatives) :
                         BoundedEnds(entity_type, t, i, k) # {}}
    IN  IF matching = {}
        THEN 0
        ELSE LET k == CHOOSE k \in matching : \A j \in matching : k <= j
                 ends == BoundedEnds(entity_type, t, i, k)
             IN  CHOOSE e \in ends : \A f \in ends : e >= f

\* pattern.finditer(text): the matches from the left, none overlapping.
\* After a match at i ending before e the search goes on at e, after no
\* match (e = 0) at i + 1.
RECURSIVE finditer(_, _, _)
RECURSIVE finditer_after(_, _, _, _)
finditer_after(entity_type, t, i, e) ==
    IF e # 0
    THEN <<[start |-> i - 1, end |-> e - 1]>> \o finditer(entity_type, t, e)
    ELSE finditer(entity_type, t, i + 1)

finditer(entity_type, t, i) ==
    IF i > Len(t)
    THEN <<>>
    ELSE finditer_after(entity_type, t, i, MatchAt(entity_type, t, i))

\* The base confidence of every entity type, in hundredths.
base_scores ==
    [EMAIL_ADDRESS |-> 95, PHONE_NUMBER |-> 85, US_SSN |-> 90,
     CREDIT_CARD |-> 85, IP_ADDRESS |-> 90, URL |-> 80, US_PASSPORT |-> 70,
     US_DRIVER_LICENSE |-> 65, CRYPTO_ADDRESS |-> 95, IBAN |-> 85]

HasAny(matched_text, S) ==
    \E i \in 1..Len(matched_text) : matched_text[i] \in S

\* _calculate_confidence: the base score, 0.1 more for a phone number or
\* a card written with separators, 0.2 less for a short passport or
\* licence number.
calculate_confidence(entity_type, matched_text) ==
    LET base_score == base_scores[entity_type]
        adjusted ==
            IF entity_type = "PHONE_NUMBER"
            THEN IF HasAny(matched_text, {"(", ")", "-", ".", " "})
                 THEN base_score + 10 ELSE base_score
            ELSE IF entity_type = "CREDIT_CARD"
            THEN IF HasAny(matched_text, {"-", " "})
                 THEN base_score + 10 ELSE base_score
            ELSE IF entity_type \in {"US_PASSPORT", "US_DRIVER_LICENSE"}
            THEN IF Len(matched_text) < 6
                 THEN base_score - 20 ELSE base_score
            ELSE base_score
    IN  IF adjusted < 100 THEN adjusted ELSE 100

\* An overlap test that only sees two matches of the same span.
Overlap_of_equal_spans(a, b) == a.start = b.start /\ a.end = b.end

Overlap(a, b) == ~(a.end <= b.start \/ a.start >= b.end)

\* The order of the sort keys: m.start, or (m.start, -m.confidence).
KeyBefore(a, b, by_confidence) ==
    \/ a.start < b.start
    \/ by_confidence /\ a.start = b.start /\ a.confidence > b.confidence

\* m put into the sorted sequence s after every element whose key is not
\* above the key of m.
InsertSorted(s, m, by_confidence) ==
    LET above == {j \in 1..Len(s) : KeyBefore(m, s[j], by_confidence)}
        at == IF above = {}
              THEN Len(s) + 1
              ELSE CHOOSE j \in above : \A h \in above : j <= h
    IN  SubSeq(s, 1, at - 1) \o <<m>> \o SubSeq(s, at, Len(s))

\* sorted(matches, key=...) over the first n matches: stable, matches of
\* equal keys keep the order they came in.
RECURSIVE sorted(_, _, _)
sorted(matches, n, by_confidence) ==
    IF n = 0
    THEN <<>>
    ELSE InsertSorted(sorted(matches, n - 1, by_confidence), matches[n],
                      by_confidence)

\* The loop of _resolve_overlaps over sorted_matches[k..]: a match
\* overlapping a resolved one (the first such in the list) replaces it when
\* its confidence is higher and is dropped otherwise.
RECURSIVE Resolve(_, _, _)
Resolve(sorted_matches, k, resolved) ==
    IF k > Len(sorted_matches)
    THEN resolved
    ELSE LET current == sorted_matches[k]
             hit == {j \in 1..Len(resolved) : Overlap(current, resolved[j])}
         IN  IF hit = {}
             THEN Resolve(sorted_matches, k + 1, Append(resolved, current))
             ELSE LET j == CHOOSE j \in hit : \A h \in hit : j <= h
                  IN  IF current.confidence > resolved[j].confidence
                      THEN Resolve(sorted_matches, k + 1,
                               Append(SubSeq(resolved, 1, j - 1)
                                        \o SubSeq(resolved, j + 1,
                                                  Len(resolved)),
                                      current))
                      ELSE Resolve(sorted_matches, k + 1, resolved)

resolve_overlaps(matches) ==
    IF matches = <<>>
    THEN <<>>
    ELSE LET sorted_matches == sorted(matches, Len(matches), TRUE)
             resolved == Resolve(sorted_matches, 1, <<>>)
         IN  sorted(resolved, Len(resolved), FALSE)

\* The PIIMatch made of every match in found, with its confidence.
PIIMatches(entity_type, text, found) ==
    [n \in 1..Len(found) |->
        [start |-> found[n].start,
         end |-> found[n].end,
         entity_type |-> entity_type,
         confidence |->
             calculate_confidence(
                 entity_type,
                 SubSeq(text, found[n].start + 1, found[n].end))]]

\* The matches of one expression over text, each with its confidence.
MatchesOf(entity_type, text) ==
    PIIMatches(entity_type, text, finditer(entity_type, text, 1))

\* PIIDetector.analyze: every match of every expression, in the order of
\* self.patterns, then the resolution of overlaps.
RECURSIVE Candidates(_, _)
Candidates(text, n) ==
    IF n = 0
    THEN <<>>
    ELSE Candidates(text, n - 1) \o MatchesOf(EntityTypes[n], text)

analyze(text) == resolve_overlaps(Candidates(text, Len(EntityTypes)))

detect_pii(text) == analyze(text)

\* The placeholder of each category.
Placeholders ==
    [CREDIT_CARD |-> "[REDACTED-CREDIT-CARD]", URL |-> "[REDACTED-URL]"]

\* redact over one string: every match the detector reports is replaced by
\* the placeholder of its category, from the right to the left.
RECURSIVE ApplyPlaceholders(_, _, _)
ApplyPlaceholders(text, matches, n) ==
    IF n = 0
    THEN text
    ELSE ApplyPlaceholders(
             SubSeq(text, 1, matches[n].start)
                 \o <<Placeholders[matches[n].entity_type]>>
                 \o SubSeq(text, matches[n].end + 1, Len(text)),
             matches, n - 1)

redact(text) ==
    LET matches == detect_pii(text)
    IN  ApplyPlaceholders(text, matches, Len(matches))

\* The card numbers of the tests without their last two digits.
CardStems ==
    [visa |-> <<"4", "5", "3", "2", "0", "1", "5", "1", "1", "2", "8", "3",
                "0", "3">>,
     mastercard |-> <<"5", "4", "2", "5", "2", "3", "3", "4", "3", "0", "1",
                      "0", "9", "9">>,
     amex |-> <<"3", "7", "4", "2", "4", "5", "4", "5", "5", "4", "0", "0",
                "1">>,
     discover |-> <<"6", "0", "1", "1", "0", "0", "0", "9", "9", "1", "0",
                    "0", "1", "2">>]

\* Where a formatted number of each brand has its separators: after
\* these many digits.
CardGroups ==
    [visa |-> {4, 8, 12}, mastercard |-> {4, 8, 12}, amex |-> {4, 10},
     discover |-> {4, 8, 12}]

Separators == {"", "-", " "}

\* number written with separator sep after the digits of set groups.
RECURSIVE Formatted(_, _, _, _)
Formatted(number, groups, sep, n) ==
    IF n > Len(number)
    THEN <<>>
    ELSE <<number[n]>>
         \o (IF sep # "" /\ n \in groups THEN <<sep>> ELSE <<>>)
         \o Formatted(number, groups, sep, n + 1)

\* The texts around a number: none, "Card <number> ok", and the number as
\* the path of a URL.
Contexts == {"bare", "sentence", "url"}

Embedded(written, context) ==
    IF context = "sentence"
    THEN <<"C", "a", "r", "d", " ">> \o written \o <<" ", "o", "k">>
    ELSE IF context = "url"
    THEN <<"h", "t", "t", "p", ":", "/", "/", "a", ".", "c", "o", "/">>
         \o written
    ELSE written

\* One call of detect_pii and of redact on a text with one card number,
\* and redact called again on what it returned.
DetectPii ==
    /\ call = NoCall
    /\ \E brand \in DOMAIN CardStems, d1 \in DigitSet, d2 \in DigitSet,
          sep \in Separators, context \in Contexts :
          LET number == CardStems[brand] \o <<d1, d2>>
              written == Formatted(number, CardGroups[brand], sep, 1)
              text == Embedded(written, context)
          IN  call' = [function |-> "detect_pii",
                       number |-> number,
                       written |-> written,
                       text |-> text,
                       matches |-> detect_pii(text),
                       redacted |-> redact(text),
                       matches_again |-> detect_pii(redact(text)),
                       redacted_again |-> redact(redact(text))]
    /\ UNCHANGED <<pipeline, listing>>

NextRedaction == DetectPii

\* The candidates handed to _resolve_overlaps: at most one match of each of
\* four detectors, in the order of self.patterns, each with the base
\* confidence of its type, over the positions 0..MaxPosition.
MaxPosition == 4

NoSpan == [start |-> 0, end |-> 0]

Spans ==
    {[start |-> a, end |-> b] : a \in 0..(MaxPosition - 1), b \in 1..MaxPosition}
        \ {sp \in [start : 0..MaxPosition, end : 0..MaxPosition] :
               sp.start >= sp.end}

CandidateTypes == <<"US_SSN", "CREDIT_CARD", "IP_ADDRESS", "URL">>

RECURSIVE CandidateList(_, _)
CandidateList(spans, n) ==
    IF n = 0
    THEN <<>>
    ELSE CandidateList(spans, n - 1)
         \o (IF spans[n] = NoSpan
             THEN <<>>
             ELSE <<[start |-> spans[n].start,
                     end |-> spans[n].end,
                     entity_type |-> CandidateTypes[n],
                     confidence |-> base_scores[CandidateTypes[n]]]>>)

\* One call of _resolve_overlaps.
ResolveOverlaps ==
    /\ call = NoCall
    /\ \E spans \in [1..Len(CandidateTypes) -> Spans \cup {NoSpan}] :
          LET matches == CandidateList(spans, Len(CandidateTypes))
          IN  call' = [function |-> "_resolve_overlaps",
                       matches |-> matches,
                       resolved |-> resolve_overlaps(matches)]
    /\ UNCHANGED <<pipeline, listing>>

NextOverlaps == ResolveOverlaps

SpecOverlaps == Init /\ [][NextOverlaps]_vars

SpecRedaction == Init /\ [][NextRedaction]_vars

\* The value of a digit character.
DigitValue(c) == CHOOSE n \in 0..9 : DigitChars[n + 1] = c

\* The Luhn sum of the digits of number from its position n (from the
\* right, from 1) on: every second digit from the right is doubled, and 9
\* is taken off a double above 9.
RECURSIVE LuhnSum(_, _)
LuhnSum(number, n) ==
    IF n > Len(number)
    THEN 0
    ELSE LET d == DigitValue(number[Len(number) + 1 - n])
             doubled == IF 2 * d > 9 THEN 2 * d - 9 ELSE 2 * d
         IN  (IF n % 2 = 0 THEN doubled ELSE d) + LuhnSum(number, n + 1)

LuhnValid(number) == LuhnSum(number, 1) % 10 = 0

\* written has the shape of a credit card: the expression matches the whole
\* of it.
CardShaped(written) == MatchAt("CREDIT_CARD", written, 1) = Len(written) + 1

\* sub occurs in text.
Occurs(sub, text) ==
    \E i \in 0..(Len(text) - Len(sub)) :
        SubSeq(text, i + 1, i + Len(sub)) = sub

Detected == call.function = "detect_pii"

\* C30: Luhn is a gate for credit cards: a credit-card-shaped digit
\* sequence that fails the Luhn checksum is never reported or replaced as
\* CREDIT_CARD and stays verbatim in the output, and a Luhn-valid one is
\* always replaced by [REDACTED-CREDIT-CARD].
C30_LuhnGate ==
    (Detected /\ CardShaped(call.written)) =>
        IF LuhnValid(call.number)
        THEN /\ Occurs(<<"[REDACTED-CREDIT-CARD]">>, call.redacted)
             /\ ~Occurs(call.written, call.redacted)
        ELSE /\ \A n \in 1..Len(call.matches) :
                    call.matches[n].entity_type # "CREDIT_CARD"
             /\ call.redacted = call.text

Resolved == call.function = "_resolve_overlaps"

Length(m) == m.end - m.start

\* C32: of two overlapping candidates over the same string, overlap
\* resolution keeps the one of higher confidence, and the longer one when
\* the confidences are equal; the other is discarded.
C32_HigherConfidenceThenLongerKept ==
    (Resolved /\ Len(call.matches) = 2
              /\ Overlap(call.matches[1], call.matches[2])) =>
        \E kept \in 1..2 :
            LET other == 3 - kept
            IN  /\ call.resolved = <<call.matches[kept]>>
                /\ call.matches[kept].confidence
                       >= call.matches[other].confidence
                /\ call.matches[kept].confidence
                       = call.matches[other].confidence
                   => Length(call.matches[kept])
                          >= Length(call.matches[other])

\* C39: overlap resolution loses no detection: every candidate is in the
\* resolved list or overlaps a match that is in it.
C39_NoDetectionLost ==
    Resolved =>
        \A n \in 1..Len(call.matches) :
            \/ call.matches[n] \in Range(call.resolved)
            \/ \E r \in 1..Len(call.resolved) :
                   Overlap(call.matches[n], call.resolved[r])

\* C40: the list returned by overlap resolution is sorted by start and
\* pairwise non-overlapping: of two returned matches, the earlier one ends
\* at or before the start of the later one.
C40_ResolvedSortedAndDisjoint ==
    Resolved =>
        \A i \in 1..Len(call.resolved) : \A j \in 1..Len(call.resolved) :
            i < j =>
                /\ call.resolved[i].start <= call.resolved[j].start
                /\ call.resolved[i].end <= call.resolved[j].start

\* Four candidates, of which one was replaced by a later one of higher
\* confidence and one was dropped, have left two matches.
C40_Witness ==
    /\ Resolved
    /\ Len(call.matches) = 4
    /\ Len(call.resolved) = 2
    /\ \E n \in 1..4 : \E r \in 1..2 :
           /\ call.matches[n] \notin Range(call.resolved)
           /\ Overlap(call.matches[n], call.resolved[r])
           /\ call.matches[n].start < call.resolved[r].start
           /\ call.matches[n].confidence < call.resolved[r].confidence

\* C33: enforcement is fail-closed over the decision field: for every
\* verdict whose decision is not exactly allow (a missing decision and a
\* decision outside the four known values included), _enforce_decision
\* returns only if a dialog returned ALLOW or ALLOW_ALWAYS, or the block was
\* auto-allowed by the severity filter; in every other case it raises.
C33_FailClosed ==
    \A o \in Ops :
        (Acted(o) /\ decision[o].decision # "allow") =>
            IF Approved(o) \/ (BlockVerdict(o) /\ AutoAllowed(o))
            THEN Outcome(o) = "return"
            ELSE Outcome(o) = "raise"

\* C34: with several tools/list requests in flight at once, the debounce
\* test and the update of _last_tools_init_time are atomic: under every
\* interleaving, of the requests handled within the same 60 seconds at most
\* one starts _call_init_api and calls init_tools.
C34_DebounceAtomic ==
    \A t1, t2 \in Lists :
        Within60(t1, t2) =>
            /\ ~(Started(t1) /\ Started(t2))
            /\ ~(CallsBy(t1) > 0 /\ CallsBy(t2) > 0)

\* A second request with tools was handled, and skipped the init, while the
\* first one was still waiting inside _call_init_api.
C34_Witness ==
    \E t1, t2 \in Lists :
        /\ Within60(t1, t2)
        /\ tools_list[t1].pc \in {"list_roots", "init_tools"}
        /\ tools_list[t2].has_tools
        /\ tools_list[t2].pc = "returned"
        /\ ~Started(t2)

\* What is recorded for what the user did on a dialog: the button, and
\* BLOCK for a refusal or a timeout.
DecisionOf(dialog) ==
    IF dialog.choice \in {"ALLOW", "ALLOW_ALWAYS"}
    THEN dialog.choice
    ELSE "BLOCK"

\* C35: every dialog shown during enforcement is followed by exactly one
\* record_user_confirmation call, which carries the event_id of the
\* operation, the direction of the phase and the decision the dialog
\* returned (BLOCK when it was refused or timed out).
C35_DialogRecordedOnce ==
    \A o \in Ops :
        /\ Len(confirmations[o]) = Len(dialogs[o])
        /\ \A i \in 1..Len(dialogs[o]) :
               /\ confirmations[o][i].event_id = event_id[o]
               /\ confirmations[o][i].direction
                      = Direction(dialogs[o][i].is_request)
               /\ confirmations[o][i].user_decision = DecisionOf(dialogs[o][i])

\* An operation was allowed in the dialog of its request and its response
\* dialog timed out: two recordings, ALLOW for the request and BLOCK for
\* the response.
C35_Witness ==
    \E o \in Ops :
        /\ Len(dialogs[o]) = 2
        /\ dialogs[o][1].is_request /\ dialogs[o][1].choice = "ALLOW"
        /\ ~dialogs[o][2].is_request /\ dialogs[o][2].choice = "timeout"
        /\ Len(confirmations[o]) = 2
        /\ confirmations[o][2].user_decision = "BLOCK"

\* C36: when two processes call read_app_uid at once for a workspace whose
\* app_uid file is absent, both calls return the same UUID and that UUID is
\* what the file holds in the end.
C36_ConcurrentReadersAgree ==
    (/\ call.function = "read_app_uid_race"
     /\ call.initial = NoFile
     /\ \A p \in Processes : call.process[p].pc = "returned") =>
        /\ call.process[1].uid = call.process[2].uid
        /\ call.file = call.process[1].uid

\* The place of step in the steps of the last hook call (0: not there).
StepAt(step) ==
    IF step \in Range(call.steps)
    THEN CHOOSE i \in 1..Len(call.steps) : call.steps[i] = step
    ELSE 0

\* C37: in the MCP-execution and read-file hooks an allow verdict is
\* written if and only if agent_request_forwarded was emitted for the
\* event; that event is emitted after agent_request and before the verdict
\* is written; a deny verdict never comes with agent_request_forwarded.
C37_ForwardedIffAllowed ==
    call.function \in {"handle_mcp_execution", "handle_read_file"} =>
        /\ call.output.allowed <=> StepAt("allow") # 0
        /\ StepAt("allow") # 0 <=> StepAt("agent_request_forwarded") # 0
        /\ StepAt("agent_request_forwarded") # 0 =>
               /\ 0 < StepAt("agent_request")
               /\ StepAt("agent_request") < StepAt("agent_request_forwarded")
               /\ StepAt("agent_request_forwarded") < StepAt("allow")
               /\ StepAt("allow") = Len(call.steps)
        /\ ~call.output.allowed => StepAt("agent_request_forwarded") = 0

\* A file with sensitive data was inspected and allowed: agent_request,
\* the inspection, agent_request_forwarded, then the allow.
C37_Witness ==
    /\ call.function = "handle_read_file"
    /\ call.valid /\ call.content
    /\ call.enforcement = "allow"
    /\ call.steps = <<"agent_request", "inspect_and_enforce",
                      "agent_request_forwarded", "allow">>
    /\ call.output.allowed

\* C38: a Claude Code PreToolUse hook whose tool_name is not Read, Grep or
\* Bash is answered with permissionDecision allow and exit code 0, and no
\* handler runs for it: nothing is inspected and no audit event is written.
C38_UnknownToolAllowed ==
    (/\ call # NoCall
     /\ call.function = "route_claude_code_hook"
     /\ call.input.json_valid /\ call.input.session_id /\ call.input.cwd
     /\ call.input.hook_event_name = "PreToolUse"
     /\ call.input.tool_name \notin {"Read", "Grep", "Bash"})
    => /\ call.stdout = <<[permissionDecision |-> "allow", decision |-> Absent]>>
       /\ call.exit_code = 0
       /\ call.handler = Absent

\* A PreToolUse hook of the tool Write has been routed.
C38_Witness ==
    /\ call # NoCall
    /\ call.function = "route_claude_code_hook"
    /\ call.input.json_valid /\ call.input.session_id /\ call.input.cwd
    /\ call.input.hook_event_name = "PreToolUse"
    /\ call.input.tool_name = "Write"
    /\ call.exit_code = 0

====
